---- MODULE Spec2Model ----
(***************************************************************************)
(* Sprinkler controller firmware (ESP8266, PubSubClient): the MQTT command *)
(* callback, reconnectMqtt and the non-blocking loop() with its per-zone   *)
(* safety timeout.                                                         *)
(*                                                                         *)
(* Text is modelled as sequences of byte codes (ASCII), so that strstr,    *)
(* atoi, toupper, memcpy and strcmp are computed as the C code computes    *)
(* them.  A char buffer of capacity c is a sequence of length c whose      *)
(* element k+1 is the byte at C index k.                                   *)
(***************************************************************************)
EXTENDS Integers, Sequences, FiniteSets, TLC

VARIABLES
    clock,                  \* unsigned long now of the most recent loop() pass
    connected,              \* mqtt.connected()
    pins,                   \* pins[z]: digitalRead(ZONE_PINS[z-1]) == HIGH
    zone_on_time,           \* zone_on_time[z]: C array element z-1
    lastReconnectAttempt,
    lastStatusReport,
    out,                    \* transport calls made by the most recent step, in order
    rx,                     \* the message handed to callback by the most recent step
    dec,                    \* what callback decided for rx: zone acted on, command found
    step,                   \* which branch of the code the most recent step took
    forced,                 \* zones the safety check switched off in the most recent step
    age,                    \* age[z]: true milliseconds since zone z went OFF -> ON
    ticks,                  \* number of steps taken
    nmsg,                   \* number of messages handed to callback so far
    ndrop,                  \* number of times an established connection was lost
    broker,                 \* retained value the broker holds on home/sprinkler/status
    lastResult,             \* outcome of the most recent call of reconnectMqtt
    sinceAttempt,           \* true milliseconds since that call (-1: none yet)
    sinceReport,            \* true milliseconds since the last call of publishStatus (-1: none yet)
    reportGap,              \* true milliseconds between the publishStatus call of the most recent
                            \* step and the call before it (-1: no call in the step, or the first)
    mqtt_server,            \* the configured broker address (char mqtt_server[40])
    mqtt_port,              \* the configured port, as text (char mqtt_port[6])
    endpoint,               \* what mqtt.setServer stored in the client
    probe,                  \* an elapsed-time measurement: the event, the time passed, the tests
    zoneRetained,           \* the retained value of every zone's state topic at the broker
    configFile,             \* what loadConfig finds at /config.json
    readAhead,              \* milliseconds by which the last millis() read of the most
                            \* recent pass (in publishStatus) lies after clock
    downFor,                \* milliseconds for which loop() has found the connection down:
                            \* from the read of now in the first pass since the connection
                            \* was last up that found mqtt.connected() false to the read of
                            \* now in the most recent pass, kept after a reconnectMqtt that
                            \* returns true until the next pass (-1: no pass has found the
                            \* connection down since it was last up)
    lostIn                  \* where the most recent step, a connected pass, lost the
                            \* connection: in mqtt.loop(), the safety check or publishStatus
                            \* ("no": it did not, or the step was no connected pass)

vars == <<clock, connected, pins, zone_on_time, lastReconnectAttempt,
          lastStatusReport, out, rx, dec, step, forced, age, ticks,
          nmsg, ndrop, broker, lastResult, sinceAttempt, sinceReport,
          reportGap, mqtt_server, mqtt_port, endpoint, probe, zoneRetained, configFile,
          readAhead, downFor, lostIn>>

-----------------------------------------------------------------------------
(* Program constants (include/config.h) *)

NUM_ZONES == 7
RECONNECT_INTERVAL == 5000
STATUS_INTERVAL == 60000
MAX_ZONE_RUNTIME == 7200000
MQTT_MESSAGE_BUFFER_SIZE == 8
MQTT_TOPIC_PREFIX == "home/sprinkler/"
MQTT_ZONE_COMMAND == "home/sprinkler/zone/+/command"
MQTT_STATUS == "home/sprinkler/status"
SW_VERSION == "2.0.0"

\* unsigned long on the ESP8266 is 32 bits wide.  A value is held as the
\* pair <<high 16 bits, low 16 bits>>, and the arithmetic below is the
\* arithmetic modulo 2^32 on such pairs.
ULONG_BITS == 32
HALF == 2 ^ (ULONG_BITS \div 2)

Zones == 1 .. NUM_ZONES

-----------------------------------------------------------------------------
(* Bounds of the model *)

MaxSegLen == 2          \* longest zone segment of an enumerated topic
MaxPayloadLen == 3      \* longest enumerated short payload
MaxLongLen == 9         \* longest enumerated oversized payload
MaxTicks == 4           \* loop() passes per behaviour
MaxMsgs == 2            \* messages delivered per behaviour
MaxDrops == 1           \* connection losses per behaviour
MaxPortLen == 2         \* longest port text enumerated in full
MaxConfigTicks == 3     \* loop() passes per behaviour under an arbitrary configuration

-----------------------------------------------------------------------------
(* C library helpers, on byte sequences *)

Byte == 0 .. 255

IsDigit(c) == c >= 48 /\ c <= 57
\* isspace in the C locale: \t \n \v \f \r and the space
IsSpace(c) == (c >= 9 /\ c <= 13) \/ c = 32

\* toupper in the C locale
ToUpper(c) == IF c >= 97 /\ c <= 122 THEN c - 32 ELSE c

\* strlen of a buffer: the number of bytes before the first NUL
RECURSIVE StrLenFrom(_, _)
StrLenFrom(buf, i) ==
    IF i > Len(buf) \/ buf[i] = 0 THEN 0 ELSE 1 + StrLenFrom(buf, i + 1)
StrLen(buf) == StrLenFrom(buf, 1)

\* the C string held by a buffer
CStr(buf) == SubSeq(buf, 1, StrLen(buf))

\* strcmp(buf, lit) == 0
StrEq(buf, lit) == CStr(buf) = lit

\* does needle occur in s at (1-based) position p
OccursAt(s, needle, p) ==
    /\ p + Len(needle) - 1 <= Len(s)
    /\ SubSeq(s, p, p + Len(needle) - 1) = needle

\* strstr: the position of the first occurrence, 0 for NULL
RECURSIVE StrStrFrom(_, _, _)
StrStrFrom(s, needle, p) ==
    IF p > Len(s) THEN 0
    ELSE IF OccursAt(s, needle, p) THEN p
    ELSE StrStrFrom(s, needle, p + 1)
StrStr(s, needle) == StrStrFrom(s, needle, 1)

\* the value of the run of digits of s that starts at position i
RECURSIVE DigitsFrom(_, _, _)
DigitsFrom(s, i, acc) ==
    IF i <= Len(s) /\ IsDigit(s[i])
    THEN DigitsFrom(s, i + 1, acc * 10 + (s[i] - 48))
    ELSE acc

RECURSIVE SkipSpace(_, _)
SkipSpace(s, i) ==
    IF i <= Len(s) /\ IsSpace(s[i]) THEN SkipSpace(s, i + 1) ELSE i

\* atoi(s + (i-1)): leading white space is skipped, one sign is accepted,
\* then the run of digits is converted; anything else ends the number.
\* (Values beyond int are not enumerated: MaxSegLen keeps them far below.)
AToI(s, i) ==
    LET j == SkipSpace(s, i)
    IN  IF j <= Len(s) /\ s[j] = 45 THEN 0 - DigitsFrom(s, j + 1, 0)
        ELSE IF j <= Len(s) /\ s[j] = 43 THEN DigitsFrom(s, j + 1, 0)
        ELSE DigitsFrom(s, j, 0)

-----------------------------------------------------------------------------
(* callback(topic, payload, length) *)

ZONE_PREFIX == <<47, 122, 111, 110, 101, 47>>               \* "/zone/"
COMMAND_SUFFIX == <<47, 99, 111, 109, 109, 97, 110, 100>>   \* "/command"
LIT_ON == <<79, 78>>                                        \* "ON"
LIT_OFF == <<79, 70, 70>>                                   \* "OFF"
LIT_1 == <<49>>                                             \* "1"
LIT_0 == <<48>>                                             \* "0"

\* variant: > in place of >=, a payload of exactly sizeof(message) bytes is kept whole
TruncLenOffByOne(length) ==
    IF length > MQTT_MESSAGE_BUFFER_SIZE
    THEN MQTT_MESSAGE_BUFFER_SIZE - 1
    ELSE length

\* if (length >= sizeof(message)) length = sizeof(message) - 1;
TruncLen(length) ==
    IF length >= MQTT_MESSAGE_BUFFER_SIZE
    THEN MQTT_MESSAGE_BUFFER_SIZE - 1
    ELSE length

\* memcpy(message, payload, length); message[length] = '\0';
\* the bytes of message behind the terminator are never read
MessageBuf(payload) ==
    LET n == TruncLen(Len(payload))
    IN  [k \in 1 .. (n + 1) |-> IF k <= n THEN payload[k] ELSE 0]

\* C indices of message that the copy and the terminator write
MessageWrites(payload) == 0 .. TruncLen(Len(payload))

\* C indices i for which the loop body upperMessage[i] = toupper(message[i]) runs
UpperLoopIdx(payload) ==
    LET m == MessageBuf(payload)
    IN  { i \in 0 .. (MQTT_MESSAGE_BUFFER_SIZE - 2) : i < StrLen(m) }

\* C indices of upperMessage that are written
UpperWrites(payload) == UpperLoopIdx(payload) \cup {TruncLen(Len(payload))}

\* upperMessage after the loop and the terminator; garbage is what the
\* uninitialised stack buffer held on entry
UpperBuf(payload, garbage) ==
    LET m == MessageBuf(payload)
        n == TruncLen(Len(payload))
    IN  [k \in 1 .. MQTT_MESSAGE_BUFFER_SIZE |->
            IF k - 1 = n THEN 0
            ELSE IF (k - 1) \in UpperLoopIdx(payload) THEN ToUpper(m[k])
            ELSE garbage[k]]

\* variant: the words are compared without folding the case
CommandCaseSensitive(payload, garbage) ==
    LET m == MessageBuf(payload)
    IN  IF StrEq(m, LIT_ON) \/ StrEq(m, LIT_1) THEN "ON"
        ELSE IF StrEq(m, LIT_OFF) \/ StrEq(m, LIT_0) THEN "OFF"
        ELSE "NONE"

\* variant: only the words are commands, not the digits 1 and 0
CommandWithoutDigits(payload, garbage) ==
    LET u == UpperBuf(payload, garbage)
    IN  IF StrEq(u, LIT_ON) THEN "ON"
        ELSE IF StrEq(u, LIT_OFF) THEN "OFF"
        ELSE "NONE"

\* the branch of the if / else-if on the payload
Command(payload, garbage) ==
    LET m == MessageBuf(payload)
        u == UpperBuf(payload, garbage)
    IN  IF StrEq(u, LIT_ON) \/ StrEq(m, LIT_1) THEN "ON"
        ELSE IF StrEq(u, LIT_OFF) \/ StrEq(m, LIT_0) THEN "OFF"
        ELSE "NONE"

\* variant: both markers present, in any order
TopicOkAnyOrder(topic) ==
    StrStr(topic, ZONE_PREFIX) # 0 /\ StrStr(topic, COMMAND_SUFFIX) # 0

\* zonePrefixPos && commandSuffix && commandSuffix > zonePrefixPos
TopicOk(topic) ==
    LET z == StrStr(topic, ZONE_PREFIX)
        c == StrStr(topic, COMMAND_SUFFIX)
    IN  z # 0 /\ c # 0 /\ c > z

\* int zone = atoi(zoneNumStart)
ParseZone(topic) == AToI(topic, StrStr(topic, ZONE_PREFIX) + Len(ZONE_PREFIX))

\* variant: zone < NUM_ZONES in place of zone <= NUM_ZONES
TargetZoneStrictBound(topic) ==
    IF TopicOk(topic)
    THEN LET zone == ParseZone(topic)
         IN  IF zone > 0 /\ zone < NUM_ZONES THEN zone ELSE 0
    ELSE 0

\* the zone the callback acts on, 0 when the message is ignored
TargetZone(topic) ==
    IF TopicOk(topic)
    THEN LET zone == ParseZone(topic)
         IN  IF zone > 0 /\ zone <= NUM_ZONES THEN zone ELSE 0
    ELSE 0

\* snprintf(stateTopic, ..., "%szone/%d/state", MQTT_TOPIC_PREFIX, zone)
StateTopic(z) == <<MQTT_TOPIC_PREFIX, "zone/", z, "/state">>

\* mqtt.publish(topic, payload, retained), made by function `by`
Publish(by, topic, payload, retained) ==
    [op |-> "publish", by |-> by, topic |-> topic, payload |-> payload,
     retained |-> retained]

\* what callback decides for one message: the zone it acts on (0 when the
\* topic is ignored) and the command it finds in the payload
Decode(topic, payload, garbage) ==
    [zone |-> TargetZone(topic), cmd |-> Command(payload, garbage)]

\* variant: callback drives the pin without publishing the new state
CallbackOutSilent(dc) == << >>

\* the calls callback makes, given its decision
CallbackOut(dc) ==
    IF dc.zone = 0 \/ dc.cmd = "NONE" THEN << >>
    ELSE << Publish("callback", StateTopic(dc.zone), dc.cmd, TRUE) >>

\* variant: switching a zone ON switches every other zone OFF
CallbackPinsExclusive(p, dc) ==
    IF dc.zone = 0 \/ dc.cmd = "NONE" THEN p
    ELSE IF dc.cmd = "ON" THEN [z \in Zones |-> z = dc.zone]
    ELSE [p EXCEPT ![dc.zone] = FALSE]

\* the pins after callback (digitalWrite HIGH / LOW), given its decision
CallbackPins(p, dc) ==
    IF dc.zone = 0 \/ dc.cmd = "NONE" THEN p
    ELSE [p EXCEPT ![dc.zone] = (dc.cmd = "ON")]

\* The callback of src/src/main.cpp, which works on String objects.

\* String message; message += (char)payload[i]: every byte of the payload is
\* appended, a byte 0 included, so the message has the payload's bytes and length
StringMessage(payload) == payload

\* topicStr.indexOf(pattern): the 0-based position of the first occurrence, -1 if none
IndexOf(topic, pattern) == StrStr(topic, pattern) - 1

\* zoneStartPos > 6 && zoneEndPos > zoneStartPos
StringTopicOk(topic) ==
    LET zoneStartPos == IndexOf(topic, ZONE_PREFIX) + 6
        zoneEndPos == IndexOf(topic, COMMAND_SUFFIX)
    IN  zoneStartPos > 6 /\ zoneEndPos > zoneStartPos

\* topicStr.substring(zoneStartPos, zoneEndPos).toInt()
StringZone(topic) ==
    LET zoneStartPos == IndexOf(topic, ZONE_PREFIX) + 6
        zoneEndPos == IndexOf(topic, COMMAND_SUFFIX)
    IN  AToI(SubSeq(topic, zoneStartPos + 1, zoneEndPos), 1)

\* the zone the String-based callback acts on, 0 when the message is ignored
StringTargetZone(topic) ==
    IF StringTopicOk(topic)
    THEN LET zone == StringZone(topic)
         IN  IF zone > 0 /\ zone <= NUM_ZONES THEN zone ELSE 0
    ELSE 0

\* message == "ON" || message == "on" || message == "1", and the same for OFF;
\* String == const char* compares as C strings, up to the first byte 0
StringCommand(payload) ==
    LET message == CStr(StringMessage(payload))
    IN  IF message \in {LIT_ON, <<111, 110>>, LIT_1} THEN "ON"
        ELSE IF message \in {LIT_OFF, <<111, 102, 102>>, LIT_0} THEN "OFF"
        ELSE "NONE"

\* what the String-based callback decides for one message
StringDecode(topic, payload) ==
    [zone |-> StringTargetZone(topic), cmd |-> StringCommand(payload)]

\* the calls the String-based callback makes: the same retained publish on
\* MQTT_TOPIC_PREFIX + "zone/" + zone + "/state"
StringCallbackOut(dc) ==
    IF dc.zone = 0 \/ dc.cmd = "NONE" THEN << >>
    ELSE << Publish("callback", StateTopic(dc.zone), dc.cmd, TRUE) >>

\* the pins after the String-based callback
StringCallbackPins(p, dc) ==
    IF dc.zone = 0 \/ dc.cmd = "NONE" THEN p
    ELSE [p EXCEPT ![dc.zone] = (dc.cmd = "ON")]

\* no message, no decision
NoDec == [zone |-> 0, cmd |-> "NONE"]

-----------------------------------------------------------------------------
(* unsigned long *)

\* the unsigned long with value n (0 <= n < 2^31)
U32(n) == <<n \div HALF, n % HALF>>
U32Zero == <<0, 0>>
U32Max == <<HALF - 1, HALF - 1>>

\* unsigned long addition: a + b modulo 2^32
U32Add(a, b) ==
    LET lo == a[2] + b[2]
    IN  <<(a[1] + b[1] + (lo \div HALF)) % HALF, lo % HALF>>

\* unsigned long subtraction: now - then modulo 2^32
Elapsed(now, then) ==
    LET lo == now[2] - then[2]
        borrow == IF lo < 0 THEN 1 ELSE 0
    IN  <<(now[1] - then[1] - borrow + HALF) % HALF, (lo + HALF) % HALF>>

\* a > b on unsigned long
U32Gt(a, b) == a[1] > b[1] \/ (a[1] = b[1] /\ a[2] > b[2])

\* millis() / 1000
Seconds(t) == t[1] * (HALF \div 1000) + (t[1] * (HALF % 1000) + t[2]) \div 1000

-----------------------------------------------------------------------------
(* reconnectMqtt, publishHomeAssistantConfig, publishStatus *)

DEFAULT_PORT == 1883
MAX_PORT == 65535
PORT_TEXT_SIZE == 6                                     \* char mqtt_port[6]
SERVER_TEXT_SIZE == 40                                  \* char mqtt_server[40]
DEFAULT_PORT_TEXT == <<49, 56, 56, 51>>                 \* "1883"
BROKER_ADDRESS == <<109, 113, 116, 116>>                \* "mqtt", a configured address

ZONE_NAMES ==
    <<"Front Lawn", "Back Lawn", "Garden", "Side Yard", "Flower Bed",
      "Drip System", "Extra Zone">>

PinText(p, z) == IF p[z] THEN "ON" ELSE "OFF"

\* mqtt.subscribe(topic)
Subscribe(topic) == [op |-> "subscribe", topic |-> topic]

\* variant: the will is registered without the retain flag
ConnectWillNotRetained ==
    [op |-> "connect", willTopic |-> MQTT_STATUS, willQos |-> 0,
     willRetain |-> FALSE, willMessage |-> "offline"]

\* mqtt.connect(MQTT_CLIENT_ID, user, password, MQTT_STATUS, 0, true, "offline")
Connect ==
    [op |-> "connect", willTopic |-> MQTT_STATUS, willQos |-> 0,
     willRetain |-> TRUE, willMessage |-> "offline"]

\* the JSON document of one zone's discovery record
DiscoveryPayload(z) ==
    [name |-> ZONE_NAMES[z],
     unique_id |-> <<"sprinkler_zone", z>>,
     command_topic |-> <<MQTT_TOPIC_PREFIX, "zone/", z, "/command">>,
     state_topic |-> StateTopic(z),
     availability_topic |-> MQTT_STATUS,
     payload_on |-> "ON", payload_off |-> "OFF",
     state_on |-> "ON", state_off |-> "OFF",
     optimistic |-> FALSE, qos |-> 0, retain |-> TRUE,
     device |-> [name |-> "Sprinkler Controller", identifiers |-> "chip-id",
                 model |-> "ESP8266 NodeMCU", manufacturer |-> "DIY",
                 sw_version |-> SW_VERSION]]

\* publishHomeAssistantConfig(): one retained publish per zone, in zone order
HomeAssistantConfigOut ==
    [z \in Zones |->
        Publish("publishHomeAssistantConfig",
                <<"homeassistant/switch/sprinkler_zone", z, "/config">>,
                DiscoveryPayload(z), TRUE)]

\* variant: every zone is announced as OFF
ZoneStatesOutAllOff(p) == [z \in Zones |-> Publish("reconnectMqtt", StateTopic(z), "OFF", TRUE)]

\* the loop of reconnectMqtt that publishes the state of every zone
ZoneStatesOut(p) == [z \in Zones |-> Publish("reconnectMqtt", StateTopic(z), PinText(p, z), TRUE)]

\* variant: the discovery records are published before the zone states
ReconnectOutDiscoveryFirst(p, ok) ==
    IF ok
    THEN <<Connect, Subscribe(MQTT_ZONE_COMMAND), Publish("reconnectMqtt", MQTT_STATUS, "online", TRUE)>>
         \o HomeAssistantConfigOut \o ZoneStatesOut(p)
    ELSE <<Connect>>

\* variant: the discovery record of a zone carries the state of its pin
ReconnectOutDiscoveryWithState(p, ok) ==
    IF ok
    THEN <<Connect, Subscribe(MQTT_ZONE_COMMAND), Publish("reconnectMqtt", MQTT_STATUS, "online", TRUE)>>
         \o ZoneStatesOut(p)
         \o [z \in Zones |->
                Publish("publishHomeAssistantConfig",
                        <<"homeassistant/switch/sprinkler_zone", z, "/config">>,
                        [record |-> DiscoveryPayload(z), state |-> PinText(p, z)], TRUE)]
    ELSE <<Connect>>

\* the calls reconnectMqtt makes; ok is the result of mqtt.connect
ReconnectOut(p, ok) ==
    IF ok
    THEN <<Connect, Subscribe(MQTT_ZONE_COMMAND), Publish("reconnectMqtt", MQTT_STATUS, "online", TRUE)>>
         \o ZoneStatesOut(p) \o HomeAssistantConfigOut
    ELSE <<Connect>>

\* int mqtt_port_int = (mqtt_port[0] != '\0') ? atoi(mqtt_port) : 1883
PortNumber(text) == IF text # << >> THEN AToI(text, 1) ELSE DEFAULT_PORT

\* if (mqtt_port_int <= 0 || mqtt_port_int > 65535) mqtt_port_int = 1883
ValidPort(text) ==
    IF PortNumber(text) <= 0 \/ PortNumber(text) > MAX_PORT
    THEN DEFAULT_PORT
    ELSE PortNumber(text)

\* mqtt.setServer(mqtt_server, mqtt_port_int)
SetServer(server, text) == [domain |-> server, port |-> ValidPort(text)]

\* the client before the first call of setServer
NoEndpoint == [domain |-> << >>, port |-> 0]

\* what one connection attempt can come to: mqtt.connect fails; it succeeds
\* and the link holds; it succeeds and the link is lost before
\* reconnectMqtt returns mqtt.connected()
ConnectResults == {"fail", "ok", "lost"}

\* no broker is reached at an empty address
ConnectResultsAt(server) == IF server = << >> THEN {"fail"} ELSE ConnectResults

\* publishStatus(): the JSON health report (free_heap, wifi_rssi and chip_id
\* are read from the platform and carry no state of the program)
StatusOut(p, now) ==
    << Publish("publishStatus", MQTT_STATUS,
               [status |-> "online", uptime |-> Seconds(now),
                zones |-> [z \in Zones |->
                            [zone |-> z, name |-> ZONE_NAMES[z], state |-> PinText(p, z)]]],
               TRUE) >>

\* the retained value on home/sprinkler/status at the broker: nothing yet,
\* the payloads of reconnectMqtt and of the last will, or the JSON document
\* of publishStatus
NO_VALUE == "(none)"
STATUS_JSON == "{\"status\":\"online\",\"uptime\":...}"

\* the broker delivers the last will registered by mqtt.connect when the
\* connection is lost without a DISCONNECT packet
WillDelivered(b) ==
    IF Connect.willTopic = MQTT_STATUS /\ Connect.willRetain
    THEN Connect.willMessage
    ELSE b

\* the retained status value after a call of reconnectMqtt: unchanged when
\* mqtt.connect fails; "online" when it succeeds; the will when the link
\* is lost again before reconnectMqtt returns
BrokerAfterAttempt(b, res) ==
    IF res = "fail" THEN b
    ELSE IF res = "ok" THEN "online"
    ELSE WillDelivered("online")

\* the retained status value after a connected pass: the will when the link
\* was lost in the pass (a report published before the loss is replaced by
\* it, one published after the loss reaches nobody), the JSON document when
\* publishStatus ran with the link up
BrokerAfterPass(b, drop, due) ==
    IF drop # "no" THEN WillDelivered(b)
    ELSE IF due THEN STATUS_JSON
    ELSE b

\* the retained values of the zone state topics after the publishes in o,
\* all of them publishes on zone state topics, have reached the broker
RetainedAfter(r, o) ==
    [z \in Zones |->
        LET ks == { k \in 1 .. Len(o) : o[k].topic = StateTopic(z) }
        IN  IF ks = {} THEN r[z]
            ELSE o[CHOOSE k \in ks : \A j \in ks : j <= k].payload]

\* how many of the zone states reconnectMqtt publishes one after the other
\* reach the broker: none when mqtt.connect fails, all when the link holds,
\* and the first k of them, for any k, when the link is lost again before
\* reconnectMqtt returns
DeliveredAt(res) ==
    IF res = "ok" THEN {NUM_ZONES}
    ELSE IF res = "fail" THEN {0}
    ELSE 0 .. NUM_ZONES

\* true elapsed time after d more milliseconds, kept up to cap (-1: no event yet)
Later(since, d, cap) ==
    IF since < 0 THEN since
    ELSE IF since + d > cap THEN cap
    ELSE since + d

-----------------------------------------------------------------------------
(* loop() *)

\* variant: reconnectMqtt is called only as long as no call has failed
ReconnectDueUntilFailure(now, last) ==
    last = U32Zero /\ U32Gt(Elapsed(now, last), U32(RECONNECT_INTERVAL))

\* variant: >= in place of >
ReconnectDueInclusive(now, last) ==
    ~U32Gt(U32(RECONNECT_INTERVAL), Elapsed(now, last))

\* the reconnect test of loop()
ReconnectDue(now, last) == U32Gt(Elapsed(now, last), U32(RECONNECT_INTERVAL))

\* variant: the first report is due at once
StatusDueAtFirstPass(now, last) ==
    last = U32Zero \/ U32Gt(Elapsed(now, last), U32(STATUS_INTERVAL))

\* variant: >= in place of >
StatusDueInclusive(now, last) ==
    ~U32Gt(U32(STATUS_INTERVAL), Elapsed(now, last))

\* the status test of loop()
StatusDue(now, last) == U32Gt(Elapsed(now, last), U32(STATUS_INTERVAL))

\* the test of the safety check on a zone whose timer is running
RuntimeExceeded(now, since) == U32Gt(Elapsed(now, since), U32(MAX_ZONE_RUNTIME))

\* zones the safety check switches off: pin HIGH, timer running, limit
\* exceeded at at[z], the value millis() returns when zone z is looked at
ForcedOff(p, zot, at) ==
    { z \in Zones : p[z] /\ zot[z] # U32Zero /\ RuntimeExceeded(at[z], zot[z]) }

\* the pins after the safety check
SafetyPins(p, zot, at) ==
    [z \in Zones |-> IF z \in ForcedOff(p, zot, at) THEN FALSE ELSE p[z]]

\* zone_on_time after the safety check
SafetyTimes(p, zot, at) ==
    [z \in Zones |->
        IF p[z]
        THEN IF zot[z] = U32Zero THEN at[z]
             ELSE IF RuntimeExceeded(at[z], zot[z]) THEN U32Zero
             ELSE zot[z]
        ELSE U32Zero]

\* the publishes of the safety check, in zone order
RECURSIVE SafetyOutFrom(_, _, _, _)
RECURSIVE SafetyOutEveryPass(_, _, _, _)
\* variant: OFF is published for every zone whose limit is exceeded or whose pin is LOW
SafetyOutEveryPass(p, zot, at, z) ==
    IF z > NUM_ZONES THEN << >>
    ELSE (IF z \in ForcedOff(p, zot, at) \/ ~p[z]
          THEN << Publish("loop", StateTopic(z), "OFF", TRUE) >>
          ELSE << >>) \o SafetyOutEveryPass(p, zot, at, z + 1)
SafetyOutAlsoIdleZones(p, zot, at) == SafetyOutEveryPass(p, zot, at, 1)

SafetyOutFrom(p, zot, at, z) ==
    IF z > NUM_ZONES THEN << >>
    ELSE (IF z \in ForcedOff(p, zot, at)
          THEN << Publish("loop", StateTopic(z), "OFF", TRUE) >>
          ELSE << >>) \o SafetyOutFrom(p, zot, at, z + 1)
SafetyOut(p, zot, at) == SafetyOutFrom(p, zot, at, 1)

\* /config.json is not looked at
NoFile == [kind |-> "none"]

\* no measurement taken
NoProbe == [taken |-> FALSE]

NoMsg == [valid |-> FALSE, topic |-> << >>, payload |-> << >>, garbage |-> << >>]
Msg(t, pl, g) == [valid |-> TRUE, topic |-> t, payload |-> pl, garbage |-> g]

\* true time a zone has been ON at the read of now in a pass, d milliseconds
\* after the pass before: a zone switched ON by callback in this pass has
\* been ON since callback's digitalWrite, `since` milliseconds ago
AgeAfterPump(a, before, after, d, since) ==
    [z \in Zones |->
        IF ~after[z] THEN 0
        ELSE IF before[z] THEN a[z] + d
        ELSE since]

-----------------------------------------------------------------------------
(* Inputs *)

TOPIC_HEAD == <<104, 111, 109, 101, 47, 115, 112, 114, 105, 110, 107, 108, 101, 114>>  \* "home/sprinkler"

\* "home/sprinkler/zone/<seg>/command"
CommandTopic(seg) == TOPIC_HEAD \o ZONE_PREFIX \o seg \o COMMAND_SUFFIX

\* the decimal digit of a zone number
ZoneSeg(z) == << 48 + z >>

\* contents an uninitialised upperMessage can have on entry: zeroes, what an
\* earlier call left there ("ON", "OFF"), and bytes that are all non-zero
ZeroBuf == [k \in 1 .. MQTT_MESSAGE_BUFFER_SIZE |-> 0]
GarbageBufs ==
    { ZeroBuf,
      [k \in 1 .. MQTT_MESSAGE_BUFFER_SIZE |-> IF k <= 2 THEN LIT_ON[k] ELSE 0],
      [k \in 1 .. MQTT_MESSAGE_BUFFER_SIZE |-> IF k <= 3 THEN LIT_OFF[k] ELSE 0],
      [k \in 1 .. MQTT_MESSAGE_BUFFER_SIZE |-> 170] }

\* messages the broker delivers while the loop runs
CmdZones == {1, NUM_ZONES}
Inbox ==
    { Msg(CommandTopic(ZoneSeg(z)), LIT_ON, ZeroBuf) : z \in CmdZones }
    \cup { Msg(CommandTopic(ZoneSeg(1)), LIT_OFF, ZeroBuf) }
    \cup { Msg(CommandTopic(<<57, 57>>), <<55>>, ZeroBuf) }     \* zone/99/command, "7"

\* callback's decision for every message of Inbox
InboxDecoded == [m \in Inbox |-> Decode(m.topic, m.payload, m.garbage)]

\* mqtt.loop() hands at most one message to callback
PumpDec(m) == IF m.valid THEN InboxDecoded[m] ELSE NoDec

\* the pins after mqtt.loop()
PumpPins(p, m) == CallbackPins(p, PumpDec(m))

\* the calls made inside mqtt.loop()
PumpOut(m) == CallbackOut(PumpDec(m))

\* the zone state publishes of a connected pass that reach the broker, po
\* made by callback and so by the safety check, one after the other: all of
\* them when the link holds or is lost in publishStatus; callback's or
\* nothing when it is lost inside mqtt.loop(); callback's and the first k
\* of the safety check's, k short of all, when it is lost in the safety check
DeliveredInPass(drop, po, so) ==
    IF drop = "pump" THEN {<< >>, po}
    ELSE IF drop = "scan" THEN { po \o SubSeq(so, 1, k) : k \in 0 .. (Len(so) - 1) }
    ELSE {po \o so}

\* milliseconds between two passes of loop()
Deltas == {1, RECONNECT_INTERVAL, MAX_ZONE_RUNTIME, MAX_ZONE_RUNTIME + 1}

\* millis() when the modelled passes start: some seconds after boot, and
\* shortly before the counter wraps
ClockStarts == {U32(RECONNECT_INTERVAL), Elapsed(U32Max, U32(1))}

\* whether a connection that is up is lost during a pass: not at all;
\* inside mqtt.loop() (the safety check and the status check still run);
\* at one of the publishes of the safety check (the later ones and the
\* status check still run); or at the publish of publishStatus.  A loss
\* between two passes is the step LinkLost.
Drops == {"no", "pump", "scan", "status"}

\* millis() is read several times in a connected pass: once for every zone
\* that is ON (in zone order), then for now, then in publishStatus.  A skew
\* says how the steps of the pass lie around the read of now: callback
\* drives the pin `pump` milliseconds before it, zone z is looked at
\* scan[z] milliseconds before it, and publishStatus reads its uptime
\* `uptime` milliseconds after it.
NoSkew == [pump |-> 0, scan |-> [z \in Zones |-> 0], uptime |-> 0]
Skews ==
    { NoSkew,
      [pump |-> 2, scan |-> [z \in Zones |-> 1], uptime |-> 1],
      [pump |-> 1, scan |-> [z \in Zones |-> IF z = 1 THEN 1 ELSE 0], uptime |-> 0] }

\* the steps of one pass are made in order
SkewOk(sk) ==
    /\ sk.pump >= sk.scan[1]
    /\ \A z \in Zones : sk.scan[z] >= 0
    /\ \A z \in 1 .. (NUM_ZONES - 1) : sk.scan[z] >= sk.scan[z + 1]
    /\ sk.uptime >= 0

\* millis() as the safety check reads it for each zone
ScanReads(now, sk) == [z \in Zones |-> Elapsed(now, U32(sk.scan[z]))]

-----------------------------------------------------------------------------
(* The control loop *)

AllOff == [z \in Zones |-> FALSE]

Init ==
    /\ clock \in ClockStarts
    /\ connected = FALSE
    /\ pins = AllOff
    /\ zone_on_time = [z \in Zones |-> U32Zero]
    /\ lastReconnectAttempt = U32Zero
    /\ lastStatusReport = U32Zero
    /\ out = << >>
    /\ rx = NoMsg
    /\ dec = NoDec
    /\ step = <<"setup">>
    /\ forced = {}
    /\ age = [z \in Zones |-> 0]
    /\ ticks = 0
    /\ nmsg = 0
    /\ ndrop = 0
    /\ broker = NO_VALUE
    /\ lastResult = "none"
    /\ sinceAttempt = -1
    /\ sinceReport = -1
    /\ reportGap = -1
    /\ mqtt_server = BROKER_ADDRESS
    /\ mqtt_port = DEFAULT_PORT_TEXT
    /\ endpoint = NoEndpoint
    /\ probe = NoProbe
    /\ zoneRetained = [z \in Zones |-> NO_VALUE]
    /\ configFile = NoFile
    /\ readAhead = 0
    /\ downFor = -1
    /\ lostIn = "no"

Now(d) == U32Add(clock, U32(d))

\* variant: the safety check also runs while disconnected
LoopIdleWithSafety(d) ==
    /\ ticks < MaxTicks
    /\ ~connected
    /\ readAhead <= d
    /\ ~ReconnectDue(Now(d), lastReconnectAttempt)
    /\ clock' = Now(d)
    /\ pins' = SafetyPins(pins, zone_on_time, [z \in Zones |-> Now(d)])
    /\ zone_on_time' = SafetyTimes(pins, zone_on_time, [z \in Zones |-> Now(d)])
    /\ out' = SafetyOut(pins, zone_on_time, [z \in Zones |-> Now(d)])
    /\ rx' = NoMsg
    /\ dec' = NoDec
    /\ step' = <<"idle">>
    /\ forced' = ForcedOff(pins, zone_on_time, [z \in Zones |-> Now(d)])
    /\ age' = AgeAfterPump(age, pins, pins, d, 0)
    /\ ticks' = ticks + 1
    /\ sinceAttempt' = Later(sinceAttempt, d, RECONNECT_INTERVAL + 1)
    /\ sinceReport' = Later(sinceReport, d, STATUS_INTERVAL + 1)
    /\ reportGap' = -1
    /\ readAhead' = 0
    /\ downFor' = (IF downFor < 0 THEN 0 ELSE Later(downFor, d, STATUS_INTERVAL + 1))
    /\ lostIn' = "no"
    /\ UNCHANGED <<mqtt_server, mqtt_port, endpoint, probe, zoneRetained, configFile>>
    /\ UNCHANGED <<connected, lastReconnectAttempt, lastStatusReport, nmsg, ndrop,
                   broker, lastResult>>

\* variant: the status check also runs while disconnected
LoopIdleWithStatus(d) ==
    /\ ticks < MaxTicks
    /\ ~connected
    /\ readAhead <= d
    /\ ~ReconnectDue(Now(d), lastReconnectAttempt)
    /\ clock' = Now(d)
    /\ \E due \in {StatusDue(Now(d), lastStatusReport)} :
          /\ lastStatusReport' = IF due THEN Now(d) ELSE lastStatusReport
          /\ out' = IF due THEN StatusOut(pins, Now(d)) ELSE << >>
          /\ sinceReport' = IF due THEN 0 ELSE Later(sinceReport, d, STATUS_INTERVAL + 1)
          /\ reportGap' = IF due THEN Later(sinceReport, d, STATUS_INTERVAL + 1) ELSE -1
    /\ rx' = NoMsg
    /\ dec' = NoDec
    /\ step' = <<"idle">>
    /\ forced' = {}
    /\ age' = AgeAfterPump(age, pins, pins, d, 0)
    /\ ticks' = ticks + 1
    /\ sinceAttempt' = Later(sinceAttempt, d, RECONNECT_INTERVAL + 1)
    /\ readAhead' = 0
    /\ downFor' = (IF downFor < 0 THEN 0 ELSE Later(downFor, d, STATUS_INTERVAL + 1))
    /\ lostIn' = "no"
    /\ UNCHANGED <<mqtt_server, mqtt_port, endpoint, probe, zoneRetained, configFile>>
    /\ UNCHANGED <<connected, pins, zone_on_time, lastReconnectAttempt,
                   nmsg, ndrop, broker, lastResult>>

\* loop() while disconnected, the reconnect interval not yet over
IdlePass(d) ==
    /\ ~connected
    /\ readAhead <= d
    /\ ~ReconnectDue(Now(d), lastReconnectAttempt)
    /\ clock' = Now(d)
    /\ out' = << >>
    /\ rx' = NoMsg
    /\ dec' = NoDec
    /\ step' = <<"idle">>
    /\ forced' = {}
    /\ age' = AgeAfterPump(age, pins, pins, d, 0)
    /\ sinceAttempt' = Later(sinceAttempt, d, RECONNECT_INTERVAL + 1)
    /\ sinceReport' = Later(sinceReport, d, STATUS_INTERVAL + 1)
    /\ reportGap' = -1
    /\ readAhead' = 0
    /\ downFor' = (IF downFor < 0 THEN 0 ELSE Later(downFor, d, STATUS_INTERVAL + 1))
    /\ lostIn' = "no"
    /\ UNCHANGED <<mqtt_server, mqtt_port, endpoint, probe, zoneRetained, configFile>>
    /\ UNCHANGED <<connected, pins, zone_on_time, lastReconnectAttempt, lastStatusReport,
                   nmsg, ndrop, broker, lastResult>>

\* a pass of loop() while disconnected, the reconnect interval not yet over
LoopIdle(d) ==
    /\ ticks < MaxTicks
    /\ ticks' = ticks + 1
    /\ IdlePass(d)

\* variant: a failed connection attempt restarts the device (ESP.restart()),
\* after which setup() has run again
ReconnectPassRestartOnFailure(d, res) ==
    /\ ~connected
    /\ res \in ConnectResultsAt(mqtt_server)
    /\ readAhead <= d
    /\ ReconnectDue(Now(d), lastReconnectAttempt)
    /\ clock' = IF res = "fail" THEN U32Zero ELSE Now(d)
    /\ connected' = (res = "ok")
    /\ lastReconnectAttempt' = U32Zero
    /\ out' = ReconnectOut(pins, res # "fail")
    /\ rx' = NoMsg
    /\ dec' = NoDec
    /\ step' = IF res = "fail" THEN <<"setup">> ELSE <<"reconnect", res>>
    /\ forced' = {}
    /\ pins' = IF res = "fail" THEN AllOff ELSE pins
    /\ zone_on_time' = IF res = "fail" THEN [z \in Zones |-> U32Zero] ELSE zone_on_time
    /\ lastStatusReport' = IF res = "fail" THEN U32Zero ELSE lastStatusReport
    /\ age' = IF res = "fail" THEN [z \in Zones |-> 0] ELSE AgeAfterPump(age, pins, pins, d, 0)
    /\ broker' = BrokerAfterAttempt(broker, res)
    /\ lastResult' = res
    /\ sinceAttempt' = 0
    /\ sinceReport' = Later(sinceReport, d, STATUS_INTERVAL + 1)
    /\ reportGap' = -1
    /\ endpoint' = SetServer(mqtt_server, mqtt_port)
    /\ \E k \in DeliveredAt(res) :
          zoneRetained' = RetainedAfter(zoneRetained, SubSeq(ZoneStatesOut(pins), 1, k))
    /\ readAhead' = 0
    /\ downFor' = IF res # "ok" THEN -1
                  ELSE IF downFor < 0 THEN 0 ELSE Later(downFor, d, STATUS_INTERVAL + 1)
    /\ lostIn' = "no"
    /\ UNCHANGED <<nmsg, ndrop, mqtt_server, mqtt_port, probe, configFile>>

\* loop() while disconnected, calling reconnectMqtt
ReconnectPass(d, res) ==
    /\ ~connected
    /\ res \in ConnectResultsAt(mqtt_server)
    /\ readAhead <= d
    /\ ReconnectDue(Now(d), lastReconnectAttempt)
    /\ clock' = Now(d)
    /\ connected' = (res = "ok")
    /\ lastReconnectAttempt' = IF res = "ok" THEN U32Zero ELSE Now(d)
    /\ out' = ReconnectOut(pins, res # "fail")
    /\ rx' = NoMsg
    /\ dec' = NoDec
    /\ step' = <<"reconnect", res>>
    /\ forced' = {}
    /\ age' = AgeAfterPump(age, pins, pins, d, 0)
    /\ broker' = BrokerAfterAttempt(broker, res)
    /\ lastResult' = res
    /\ sinceAttempt' = 0
    /\ sinceReport' = Later(sinceReport, d, STATUS_INTERVAL + 1)
    /\ reportGap' = -1
    /\ endpoint' = SetServer(mqtt_server, mqtt_port)
    /\ \E k \in DeliveredAt(res) :
          zoneRetained' = RetainedAfter(zoneRetained, SubSeq(ZoneStatesOut(pins), 1, k))
    /\ readAhead' = 0
    /\ downFor' = IF res = "lost" THEN -1
                  ELSE IF downFor < 0 THEN 0 ELSE Later(downFor, d, STATUS_INTERVAL + 1)
    /\ lostIn' = "no"
    /\ UNCHANGED <<pins, zone_on_time, lastStatusReport, nmsg, ndrop,
                   mqtt_server, mqtt_port, probe, configFile>>

\* a pass of loop() while disconnected that calls reconnectMqtt
LoopReconnect(d, res) ==
    /\ ticks < MaxTicks
    /\ ticks' = ticks + 1
    /\ ReconnectPass(d, res)

\* variant: the status check is made before mqtt.loop() and the safety check
ConnectedPassStatusFirst(d, m, drop, sk) ==
    /\ connected
    /\ m.valid => nmsg < MaxMsgs
    /\ drop # "no" => ndrop < MaxDrops
    /\ SkewOk(sk)
    /\ readAhead + sk.pump <= d
    /\ \E now \in {Now(d)}, p1 \in {PumpPins(pins, m)} :
       \E at \in {ScanReads(now, sk)}, due \in {StatusDue(now, lastStatusReport)} :
       \E f \in {ForcedOff(p1, zone_on_time, at)}, p2 \in {SafetyPins(p1, zone_on_time, at)} :
          /\ clock' = now
          /\ connected' = (drop = "no")
          /\ pins' = p2
          /\ zone_on_time' = SafetyTimes(p1, zone_on_time, at)
          /\ lastStatusReport' = IF due THEN now ELSE lastStatusReport
          /\ out' = PumpOut(m) \o SafetyOut(p1, zone_on_time, at)
                      \o (IF due THEN StatusOut(pins, U32Add(now, U32(sk.uptime))) ELSE << >>)
          /\ rx' = m
          /\ dec' = PumpDec(m)
          /\ step' = <<"connected">>
          /\ forced' = f
          /\ age' = AgeAfterPump(age, pins, p1, d, sk.pump)
          /\ nmsg' = IF m.valid THEN nmsg + 1 ELSE nmsg
          /\ ndrop' = IF drop # "no" THEN ndrop + 1 ELSE ndrop
          /\ broker' = BrokerAfterPass(broker, drop, due)
          /\ sinceAttempt' = Later(sinceAttempt, d, RECONNECT_INTERVAL + 1)
          /\ sinceReport' = IF due THEN 0 ELSE Later(sinceReport, d, STATUS_INTERVAL + 1)
          /\ reportGap' = IF due THEN Later(sinceReport, d, STATUS_INTERVAL + 1) ELSE -1
          /\ drop = "scan" => f # {}
          /\ drop = "status" => due
          /\ \E arrived \in DeliveredInPass(drop, PumpOut(m), SafetyOut(p1, zone_on_time, at)) :
                zoneRetained' = RetainedAfter(zoneRetained, arrived)
          /\ readAhead' = IF due THEN sk.uptime ELSE 0
          /\ downFor' = -1
          /\ lostIn' = drop
          /\ UNCHANGED <<lastReconnectAttempt, lastResult,
                         mqtt_server, mqtt_port, endpoint, probe, configFile>>

\* loop() while connected: mqtt.loop(), safety check, status
ConnectedPass(d, m, drop, sk) ==
    /\ connected
    /\ m.valid => nmsg < MaxMsgs
    /\ drop # "no" => ndrop < MaxDrops
    /\ SkewOk(sk)
    /\ readAhead + sk.pump <= d
    /\ \E now \in {Now(d)}, p1 \in {PumpPins(pins, m)} :
       \E at \in {ScanReads(now, sk)}, due \in {StatusDue(now, lastStatusReport)} :
       \E f \in {ForcedOff(p1, zone_on_time, at)}, p2 \in {SafetyPins(p1, zone_on_time, at)} :
          /\ clock' = now
          /\ connected' = (drop = "no")
          /\ pins' = p2
          /\ zone_on_time' = SafetyTimes(p1, zone_on_time, at)
          /\ lastStatusReport' = IF due THEN now ELSE lastStatusReport
          /\ out' = PumpOut(m) \o SafetyOut(p1, zone_on_time, at)
                      \o (IF due THEN StatusOut(p2, U32Add(now, U32(sk.uptime))) ELSE << >>)
          /\ rx' = m
          /\ dec' = PumpDec(m)
          /\ step' = <<"connected">>
          /\ forced' = f
          /\ age' = AgeAfterPump(age, pins, p1, d, sk.pump)
          /\ nmsg' = IF m.valid THEN nmsg + 1 ELSE nmsg
          /\ ndrop' = IF drop # "no" THEN ndrop + 1 ELSE ndrop
          /\ broker' = BrokerAfterPass(broker, drop, due)
          /\ sinceAttempt' = Later(sinceAttempt, d, RECONNECT_INTERVAL + 1)
          /\ sinceReport' = IF due THEN 0 ELSE Later(sinceReport, d, STATUS_INTERVAL + 1)
          /\ reportGap' = IF due THEN Later(sinceReport, d, STATUS_INTERVAL + 1) ELSE -1
          /\ drop = "scan" => f # {}
          /\ drop = "status" => due
          /\ \E arrived \in DeliveredInPass(drop, PumpOut(m), SafetyOut(p1, zone_on_time, at)) :
                zoneRetained' = RetainedAfter(zoneRetained, arrived)
          /\ readAhead' = IF due THEN sk.uptime ELSE 0
          /\ downFor' = -1
          /\ lostIn' = drop
          /\ UNCHANGED <<lastReconnectAttempt, lastResult,
                         mqtt_server, mqtt_port, endpoint, probe, configFile>>

\* a pass of loop() while connected: mqtt.loop(), safety check, status
LoopConnected(d, m, drop, sk) ==
    /\ ticks < MaxTicks
    /\ ticks' = ticks + 1
    /\ ConnectedPass(d, m, drop, sk)

\* the connection is lost between two passes of loop(): the next pass finds
\* mqtt.connected() false, and the broker has delivered the last will
LinkLost ==
    /\ connected
    /\ ndrop < MaxDrops
    /\ connected' = FALSE
    /\ ndrop' = ndrop + 1
    /\ broker' = WillDelivered(broker)
    /\ out' = << >>
    /\ rx' = NoMsg
    /\ dec' = NoDec
    /\ step' = <<"linklost">>
    /\ forced' = {}
    /\ reportGap' = -1
    /\ downFor' = -1
    /\ lostIn' = "no"
    /\ UNCHANGED <<clock, pins, zone_on_time, lastReconnectAttempt, lastStatusReport,
                   age, ticks, nmsg, lastResult, sinceAttempt, sinceReport,
                   mqtt_server, mqtt_port, endpoint, probe, zoneRetained, configFile,
                   readAhead>>

Next ==
    \/ \E d \in Deltas : LoopIdle(d)
    \/ \E d \in Deltas, res \in ConnectResults : LoopReconnect(d, res)
    \/ \E d \in Deltas, m \in Inbox \cup {NoMsg}, drop \in Drops, sk \in Skews :
          LoopConnected(d, m, drop, sk)
    \/ LinkLost

Spec == Init /\ [][Next]_vars

-----------------------------------------------------------------------------
(* The timing of loop(): passes spaced around RECONNECT_INTERVAL and        *)
(* STATUS_INTERVAL, no command delivered.                                   *)

TimingDeltas == {1, RECONNECT_INTERVAL, STATUS_INTERVAL, STATUS_INTERVAL + 1}

\* the state one pass after boot, when the first call of reconnectMqtt succeeded
JustConnected ==
    /\ clock = U32(RECONNECT_INTERVAL + 1)
    /\ connected = TRUE
    /\ pins = AllOff
    /\ zone_on_time = [z \in Zones |-> U32Zero]
    /\ lastReconnectAttempt = U32Zero
    /\ lastStatusReport = U32Zero
    /\ out = ReconnectOut(AllOff, TRUE)
    /\ rx = NoMsg
    /\ dec = NoDec
    /\ step = <<"reconnect", "ok">>
    /\ forced = {}
    /\ age = [z \in Zones |-> 0]
    /\ ticks = 0
    /\ nmsg = 0
    /\ ndrop = 0
    /\ broker = "online"
    /\ lastResult = "ok"
    /\ sinceAttempt = 0
    /\ sinceReport = -1
    /\ reportGap = -1
    /\ mqtt_server = BROKER_ADDRESS
    /\ mqtt_port = DEFAULT_PORT_TEXT
    /\ endpoint = SetServer(BROKER_ADDRESS, DEFAULT_PORT_TEXT)
    /\ probe = NoProbe
    /\ zoneRetained = [z \in Zones |-> "OFF"]
    /\ configFile = NoFile
    /\ readAhead = 0
    /\ downFor = 0
    /\ lostIn = "no"

InitTiming == Init \/ JustConnected

NextTiming ==
    \/ \E d \in TimingDeltas : LoopIdle(d)
    \/ \E d \in TimingDeltas, res \in ConnectResults : LoopReconnect(d, res)
    \/ \E d \in TimingDeltas, drop \in Drops, sk \in Skews : LoopConnected(d, NoMsg, drop, sk)
    \/ LinkLost

SpecTiming == InitTiming /\ [][NextTiming]_vars

-----------------------------------------------------------------------------
(* loop() running for ever: passes within the same millisecond, or an       *)
(* eighth of the range of millis() apart, so that the clock wraps.          *)

RetryStep == 2 ^ (ULONG_BITS - 3)
RetryDeltas == {0, RetryStep}

RetryIdle(d) == IdlePass(d) /\ UNCHANGED ticks
RetryReconnect(d, res) == ReconnectPass(d, res) /\ UNCHANGED ticks
RetryConnected(d, drop) == ConnectedPass(d, NoMsg, drop, NoSkew) /\ UNCHANGED ticks

NextRetry ==
    \/ \E d \in RetryDeltas : RetryIdle(d)
    \/ \E d \in RetryDeltas, res \in ConnectResults : RetryReconnect(d, res)
    \/ \E d \in RetryDeltas, drop \in Drops : RetryConnected(d, drop)
    \/ LinkLost

\* a pass of loop() by which millis() has advanced
Advance ==
    \/ RetryIdle(RetryStep)
    \/ \E res \in ConnectResults : RetryReconnect(RetryStep, res)
    \/ \E drop \in Drops : RetryConnected(RetryStep, drop)

\* loop() is called again and again and the clock advances
SpecRetry == Init /\ [][NextRetry]_vars /\ WF_vars(Advance)

-----------------------------------------------------------------------------
(* loop() under an arbitrary configuration: mqtt_server and mqtt_port hold  *)
(* whatever the configuration portal or /config.json supplied.              *)

\* bytes of enumerated port texts: 0 1 9 - a
PortAlphabet == {48, 49, 57, 45, 97}
ShortPortTexts == UNION { [1 .. n -> PortAlphabet] : n \in 0 .. MaxPortLen }

\* longer port texts, at most sizeof(mqtt_port) - 1 characters
LongPortTexts ==
    { <<49, 56, 56, 51>>,           \* "1883"
      <<56, 56, 56, 51>>,           \* "8883"
      <<54, 53, 53, 51, 53>>,       \* "65535"
      <<54, 53, 53, 51, 54>>,       \* "65536"
      <<57, 57, 57, 57, 57>>,       \* "99999"
      <<45, 49, 48, 48>>,           \* "-100"
      <<97, 98, 99>>,               \* "abc"
      <<32, 56, 48>>,               \* " 80"
      <<43, 56, 48>>,               \* "+80"
      <<56, 48, 97>> }              \* "80a"
PortTexts == ShortPortTexts \cup LongPortTexts

\* the broker address: configured, or left empty
Servers == {BROKER_ADDRESS, << >>}

\* messages delivered under an arbitrary configuration: ON for zone 1 and zone/99/command
ConfigInbox ==
    { Msg(CommandTopic(ZoneSeg(1)), LIT_ON, ZeroBuf),
      Msg(CommandTopic(<<57, 57>>), <<55>>, ZeroBuf) }

\* milliseconds between two passes
ConfigDeltas == {1, RECONNECT_INTERVAL + 1}

InitConfig ==
    /\ clock = U32(RECONNECT_INTERVAL)
    /\ connected = FALSE
    /\ pins = AllOff
    /\ zone_on_time = [z \in Zones |-> U32Zero]
    /\ lastReconnectAttempt = U32Zero
    /\ lastStatusReport = U32Zero
    /\ out = << >>
    /\ rx = NoMsg
    /\ dec = NoDec
    /\ step = <<"setup">>
    /\ forced = {}
    /\ age = [z \in Zones |-> 0]
    /\ ticks = 0
    /\ nmsg = 0
    /\ ndrop = 0
    /\ broker = NO_VALUE
    /\ lastResult = "none"
    /\ sinceAttempt = -1
    /\ sinceReport = -1
    /\ reportGap = -1
    /\ mqtt_server \in Servers
    /\ mqtt_port \in PortTexts
    /\ endpoint = NoEndpoint
    /\ probe = NoProbe
    /\ zoneRetained = [z \in Zones |-> NO_VALUE]
    /\ configFile = NoFile
    /\ readAhead = 0
    /\ downFor = -1
    /\ lostIn = "no"

ConfigIdle(d) ==
    /\ ticks < MaxConfigTicks
    /\ ticks' = ticks + 1
    /\ IdlePass(d)

ConfigReconnect(d, res) ==
    /\ ticks < MaxConfigTicks
    /\ ticks' = ticks + 1
    /\ ReconnectPass(d, res)

ConfigConnected(d, m, drop) ==
    /\ ticks < MaxConfigTicks
    /\ ticks' = ticks + 1
    /\ ConnectedPass(d, m, drop, NoSkew)

NextConfig ==
    \/ \E d \in ConfigDeltas : ConfigIdle(d)
    \/ \E d \in ConfigDeltas, res \in ConnectResults : ConfigReconnect(d, res)
    \/ \E d \in ConfigDeltas, m \in ConfigInbox \cup {NoMsg}, drop \in Drops : ConfigConnected(d, m, drop)
    \/ LinkLost

SpecConfig == InitConfig /\ [][NextConfig]_vars

-----------------------------------------------------------------------------
(* The elapsed-time tests of loop() on their own: a time is recorded, some  *)
(* milliseconds pass, and the three tests are evaluated at now = millis().  *)

\* the unsigned long 2^32 - n (0 < n < 2^31)
U32Back(n) == Elapsed(U32Zero, U32(n))

\* values of millis() at which a time is recorded: at and after boot, and
\* less than each interval before the counter wraps
RecordedTimes ==
    { U32Zero, U32(1), U32(RECONNECT_INTERVAL), U32(2 ^ (ULONG_BITS - 2)),
      U32Back(MAX_ZONE_RUNTIME + 1), U32Back(STATUS_INTERVAL), U32Back(RECONNECT_INTERVAL),
      U32Back(1) }

\* milliseconds that pass before the tests are evaluated, all below 2^32
ElapsedTimes ==
    { U32Zero, U32(1),
      U32(RECONNECT_INTERVAL - 1), U32(RECONNECT_INTERVAL), U32(RECONNECT_INTERVAL + 1),
      U32(STATUS_INTERVAL - 1), U32(STATUS_INTERVAL), U32(STATUS_INTERVAL + 1),
      U32(MAX_ZONE_RUNTIME - 1), U32(MAX_ZONE_RUNTIME), U32(MAX_ZONE_RUNTIME + 1),
      U32Back(MAX_ZONE_RUNTIME), U32Back(RECONNECT_INTERVAL), U32Back(1) }

\* the safety check on one zone that is ON with zone_on_time = since: whether
\* it switches the zone off
ZoneTimedOut(now, since) ==
    1 \in ForcedOff([z \in Zones |-> z = 1], [z \in Zones |-> since], [z \in Zones |-> now])

InitElapsed ==
    /\ clock \in RecordedTimes
    /\ connected = FALSE
    /\ pins = AllOff
    /\ zone_on_time = [z \in Zones |-> U32Zero]
    /\ lastReconnectAttempt = U32Zero
    /\ lastStatusReport = U32Zero
    /\ out = << >>
    /\ rx = NoMsg
    /\ dec = NoDec
    /\ step = <<"setup">>
    /\ forced = {}
    /\ age = [z \in Zones |-> 0]
    /\ ticks = 0
    /\ nmsg = 0
    /\ ndrop = 0
    /\ broker = NO_VALUE
    /\ lastResult = "none"
    /\ sinceAttempt = -1
    /\ sinceReport = -1
    /\ reportGap = -1
    /\ mqtt_server = BROKER_ADDRESS
    /\ mqtt_port = DEFAULT_PORT_TEXT
    /\ endpoint = NoEndpoint
    /\ probe = NoProbe
    /\ zoneRetained = [z \in Zones |-> NO_VALUE]
    /\ configFile = NoFile
    /\ readAhead = 0
    /\ downFor = -1
    /\ lostIn = "no"

\* the time `clock` was recorded, e milliseconds pass, and the tests are made
Measure(e) ==
    /\ ~probe.taken
    /\ \E now \in {U32Add(clock, e)} :
          probe' = [taken |-> TRUE,
                    then |-> clock,
                    elapsed |-> e,
                    now |-> now,
                    reconnect |-> ReconnectDue(now, clock),
                    runtime |-> ZoneTimedOut(now, clock),
                    status |-> StatusDue(now, clock)]
    /\ UNCHANGED <<clock, connected, pins, zone_on_time, lastReconnectAttempt,
                   lastStatusReport, out, rx, dec, step, forced, age, ticks,
                   nmsg, ndrop, broker, lastResult, sinceAttempt, sinceReport,
                   reportGap, mqtt_server, mqtt_port, endpoint, zoneRetained,
                   configFile, readAhead, downFor, lostIn>>

NextElapsed == \E e \in ElapsedTimes : Measure(e)

SpecElapsed == InitElapsed /\ [][NextElapsed]_vars

-----------------------------------------------------------------------------
(* loadConfig() on its own: called once by setup(), with mqtt_server and    *)
(* mqtt_port as they are initialised, on whatever /config.json holds.       *)

\* strlcpy(dst, src, size): at most size - 1 characters are copied
StrLCpy(src, size) == SubSeq(src, 1, IF Len(src) < size - 1 THEN Len(src) ELSE size - 1)

\* json[key] | fallback: the text of the field, or the fallback when the
\* field is missing
JsonText(has, text, fallback) == IF has THEN text ELSE fallback

\* bool config_valid = strlen(mqtt_server) > 0 && strlen(mqtt_port) > 0 &&
\*                     atoi(mqtt_port) > 0 && atoi(mqtt_port) <= 65535
ConfigValid(server, port) ==
    /\ StrLen(server \o <<0>>) > 0
    /\ StrLen(port \o <<0>>) > 0
    /\ AToI(port, 1) > 0
    /\ AToI(port, 1) <= MAX_PORT

\* a parsed document with its two fields that matter here
JsonFile(hs, server, hp, port) ==
    [kind |-> "json", has_server |-> hs, server |-> server, has_port |-> hp, port |-> port]

\* broker addresses in a file: empty, short, and longer than mqtt_server
FileServers == { << >>, BROKER_ADDRESS, [k \in 1 .. (SERVER_TEXT_SIZE + 1) |-> 97] }

\* port texts in a file: those of the configuration, and "655350"
FilePorts == PortTexts \cup { <<54, 53, 53, 51, 53, 48>> }

\* the documents deserializeJson can come to
JsonFiles ==
    { JsonFile(TRUE, sv, TRUE, pt) : sv \in FileServers, pt \in FilePorts }
    \cup { JsonFile(FALSE, << >>, TRUE, pt) : pt \in FilePorts }
    \cup { JsonFile(TRUE, sv, FALSE, << >>) : sv \in FileServers }
    \cup { JsonFile(FALSE, << >>, FALSE, << >>) }

\* /config.json: the file system does not mount, the file is missing, its
\* content is not a JSON document, or it is one
ConfigFiles ==
    { [kind |-> "unmounted"], [kind |-> "missing"], [kind |-> "unparsable"] } \cup JsonFiles

\* what deserializeJson makes of the file. The buffer holds the content
\* without a terminator, so the parser reads on behind content that is not a
\* complete document: it reports an error or ends up with some document.
Parsed(file) ==
    IF file.kind = "json" THEN {file}
    ELSE IF file.kind = "unparsable" THEN {[kind |-> "error"]} \cup JsonFiles
    ELSE {[kind |-> "error"]}

InitLoad ==
    /\ clock = U32Zero
    /\ connected = FALSE
    /\ pins = AllOff
    /\ zone_on_time = [z \in Zones |-> U32Zero]
    /\ lastReconnectAttempt = U32Zero
    /\ lastStatusReport = U32Zero
    /\ out = << >>
    /\ rx = NoMsg
    /\ dec = NoDec
    /\ step = <<"boot">>
    /\ forced = {}
    /\ age = [z \in Zones |-> 0]
    /\ ticks = 0
    /\ nmsg = 0
    /\ ndrop = 0
    /\ broker = NO_VALUE
    /\ lastResult = "none"
    /\ sinceAttempt = -1
    /\ sinceReport = -1
    /\ reportGap = -1
    /\ mqtt_server = << >>
    /\ mqtt_port = DEFAULT_PORT_TEXT
    /\ endpoint = NoEndpoint
    /\ probe = NoProbe
    /\ zoneRetained = [z \in Zones |-> NO_VALUE]
    /\ configFile \in ConfigFiles
    /\ readAhead = 0
    /\ downFor = -1
    /\ lostIn = "no"

\* loadConfig()
LoadConfig ==
    /\ step = <<"boot">>
    /\ \E doc \in Parsed(configFile) :
          IF doc.kind = "json"
          THEN \E server \in {StrLCpy(JsonText(doc.has_server, doc.server, << >>), SERVER_TEXT_SIZE)},
                  port \in {StrLCpy(JsonText(doc.has_port, doc.port, DEFAULT_PORT_TEXT), PORT_TEXT_SIZE)} :
                  /\ mqtt_server' = IF ConfigValid(server, port) THEN server ELSE << >>
                  /\ mqtt_port' = port
                  /\ step' = <<"loadConfig", "parsed">>
          ELSE /\ UNCHANGED <<mqtt_server, mqtt_port>>
               /\ step' = <<"loadConfig", configFile.kind>>
    /\ UNCHANGED <<clock, connected, pins, zone_on_time, lastReconnectAttempt,
                   lastStatusReport, out, rx, dec, forced, age, ticks,
                   nmsg, ndrop, broker, lastResult, sinceAttempt, sinceReport,
                   reportGap, endpoint, probe, zoneRetained, configFile, readAhead, downFor, lostIn>>

NextLoad == LoadConfig

SpecLoad == InitLoad /\ [][NextLoad]_vars

-----------------------------------------------------------------------------
(* loop() from boot: millis() starts at 0, and the passes are spaced so     *)
(* that they fall on and right behind the two intervals.                    *)

BootDeltas == {1, RECONNECT_INTERVAL, STATUS_INTERVAL - RECONNECT_INTERVAL - 1}

InitBoot ==
    /\ clock = U32Zero
    /\ connected = FALSE
    /\ pins = AllOff
    /\ zone_on_time = [z \in Zones |-> U32Zero]
    /\ lastReconnectAttempt = U32Zero
    /\ lastStatusReport = U32Zero
    /\ out = << >>
    /\ rx = NoMsg
    /\ dec = NoDec
    /\ step = <<"setup">>
    /\ forced = {}
    /\ age = [z \in Zones |-> 0]
    /\ ticks = 0
    /\ nmsg = 0
    /\ ndrop = 0
    /\ broker = NO_VALUE
    /\ lastResult = "none"
    /\ sinceAttempt = -1
    /\ sinceReport = -1
    /\ reportGap = -1
    /\ mqtt_server = BROKER_ADDRESS
    /\ mqtt_port = DEFAULT_PORT_TEXT
    /\ endpoint = NoEndpoint
    /\ probe = NoProbe
    /\ zoneRetained = [z \in Zones |-> NO_VALUE]
    /\ configFile = NoFile
    /\ readAhead = 0
    /\ downFor = -1
    /\ lostIn = "no"

NextBoot ==
    \/ \E d \in BootDeltas : LoopIdle(d)
    \/ \E d \in BootDeltas, res \in ConnectResults : LoopReconnect(d, res)
    \/ \E d \in BootDeltas, drop \in Drops, sk \in Skews : LoopConnected(d, NoMsg, drop, sk)
    \/ LinkLost

SpecBoot == InitBoot /\ [][NextBoot]_vars

-----------------------------------------------------------------------------
(* The callback on its own: one message, drawn from the sets below, is     *)
(* handed to callback while the connection is up.                          *)

\* bytes of enumerated zone segments: 0 1 3 7 8 9, space, + - and a
SegAlphabet == {48, 49, 51, 55, 56, 57, 32, 43, 45, 97}
Segments == UNION { [1 .. n -> SegAlphabet] : n \in 0 .. MaxSegLen }

\* topics without a marker, or with the markers in the wrong order
MalformedTopics ==
    { TOPIC_HEAD \o ZONE_PREFIX \o <<51>>,                          \* home/sprinkler/zone/3
      TOPIC_HEAD \o <<47, 51>> \o COMMAND_SUFFIX,                   \* home/sprinkler/3/command
      TOPIC_HEAD \o COMMAND_SUFFIX \o ZONE_PREFIX \o <<53>> }       \* home/sprinkler/command/zone/5

\* topics in which a marker occurs twice
RepeatedMarkerTopics ==
    { TOPIC_HEAD \o COMMAND_SUFFIX \o ZONE_PREFIX \o <<53>> \o COMMAND_SUFFIX,   \* home/sprinkler/command/zone/5/command
      TOPIC_HEAD \o ZONE_PREFIX \o <<57>> \o COMMAND_SUFFIX \o COMMAND_SUFFIX,   \* home/sprinkler/zone/9/command/command
      TOPIC_HEAD \o ZONE_PREFIX \o <<57>> \o ZONE_PREFIX \o <<57>> \o COMMAND_SUFFIX }  \* home/sprinkler/zone/9/zone/9/command

ZoneTopics == { CommandTopic(ZoneSeg(z)) : z \in Zones }
AllTopics ==
    { CommandTopic(seg) : seg \in Segments } \cup ZoneTopics \cup MalformedTopics
    \cup RepeatedMarkerTopics

\* bytes of enumerated payloads: O N F o n f 1 0 and NUL
PayAlphabet == {79, 78, 70, 111, 110, 102, 49, 48, 0}
ShortPayloads == UNION { [1 .. n -> PayAlphabet] : n \in 0 .. MaxPayloadLen }
\* ONON... of every length from MaxPayloadLen + 1 to MaxLongLen
LongPayloads ==
    { [k \in 1 .. n |-> IF k % 2 = 1 THEN 79 ELSE 78] : n \in (MaxPayloadLen + 1) .. MaxLongLen }
AllPayloads == ShortPayloads \cup LongPayloads

\* the case variants of ON and OFF, and the digits 1 and 0
OnWords == { w \in [1 .. 2 -> Byte] : [k \in 1 .. 2 |-> ToUpper(w[k])] = LIT_ON }
OffWords == { w \in [1 .. 3 -> {79, 70, 111, 102}] : [k \in 1 .. 3 |-> ToUpper(w[k])] = LIT_OFF }
FewPayloads == OnWords \cup OffWords \cup {LIT_1, LIT_0, <<50>>, <<55>>, << >>}

CbInputs ==
    { Msg(t, pl, ZeroBuf) : t \in AllTopics, pl \in FewPayloads }
    \cup { Msg(CommandTopic(ZoneSeg(3)), pl, g) : pl \in AllPayloads, g \in GarbageBufs }

AllOn == [z \in Zones |-> TRUE]

InitCb ==
    /\ clock = U32(STATUS_INTERVAL)
    /\ connected = TRUE
    /\ pins \in {AllOff, AllOn}
    /\ zone_on_time = [z \in Zones |-> IF pins[z] THEN U32(RECONNECT_INTERVAL + 1) ELSE U32Zero]
    /\ lastReconnectAttempt = U32Zero
    /\ lastStatusReport = U32(RECONNECT_INTERVAL + 1)
    /\ out = << >>
    /\ rx = NoMsg
    /\ dec = NoDec
    /\ step = <<"setup">>
    /\ forced = {}
    /\ age = [z \in Zones |-> IF pins[z] THEN STATUS_INTERVAL - RECONNECT_INTERVAL - 1 ELSE 0]
    /\ ticks = 0
    /\ nmsg = 0
    /\ ndrop = 0
    /\ broker = "online"
    /\ lastResult = "ok"
    /\ sinceAttempt = RECONNECT_INTERVAL + 1
    /\ sinceReport = STATUS_INTERVAL - RECONNECT_INTERVAL - 1
    /\ reportGap = -1
    /\ mqtt_server = BROKER_ADDRESS
    /\ mqtt_port = DEFAULT_PORT_TEXT
    /\ endpoint = SetServer(BROKER_ADDRESS, DEFAULT_PORT_TEXT)
    /\ probe = NoProbe
    /\ zoneRetained = [z \in Zones |-> PinText(pins, z)]
    /\ configFile = NoFile
    /\ readAhead = 0
    /\ downFor = -1
    /\ lostIn = "no"

\* callback(topic, payload, length) with m.payload of length bytes
Deliver(m) ==
    /\ nmsg = 0
    /\ \E dc \in {Decode(m.topic, m.payload, m.garbage)} :
          /\ pins' = CallbackPins(pins, dc)
          /\ out' = CallbackOut(dc)
          /\ dec' = dc
          /\ zoneRetained' = RetainedAfter(zoneRetained, CallbackOut(dc))
    /\ rx' = m
    /\ step' = <<"callback">>
    /\ nmsg' = 1
    /\ UNCHANGED <<clock, connected, zone_on_time, lastReconnectAttempt,
                   lastStatusReport, forced, age, ticks, ndrop,
                   broker, lastResult, sinceAttempt, sinceReport, reportGap,
                   mqtt_server, mqtt_port, endpoint, probe, configFile, readAhead, downFor, lostIn>>

\* one message per behaviour
Pending == IF nmsg = 0 THEN CbInputs ELSE {}

NextCb == \E m \in Pending : Deliver(m)

SpecCallback == InitCb /\ [][NextCb]_vars

-----------------------------------------------------------------------------
(* Properties of the control loop (Spec) *)

\* the number of retained OFF publishes the safety check made for zone z
SafetyOffCount(o, z) ==
    Cardinality({ k \in 1 .. Len(o) :
                    /\ o[k].op = "publish"
                    /\ o[k].by = "loop"
                    /\ o[k].topic = StateTopic(z)
                    /\ o[k].payload = "OFF"
                    /\ o[k].retained })

\* C1: after every pass of loop(), with the channel connected or not, a zone
\* that is still ON has been ON for at most MAX_ZONE_RUNTIME, so that no zone
\* is ON for longer than MAX_ZONE_RUNTIME plus the time to the next pass.
C1_RuntimeCeilingInEveryExecution ==
    \A z \in Zones : pins[z] => age[z] <= MAX_ZONE_RUNTIME

\* C2: a pass that starts connected forces a zone OFF exactly when the zone is
\* ON and the true time since its OFF-to-ON transition exceeds
\* MAX_ZONE_RUNTIME: in the first such pass, and in no pass before it.
C2_ForcedOffExactlyWhenCeilingExceeded ==
    step = <<"connected">> =>
        \A z \in Zones : (z \in forced) <=> (age[z] > MAX_ZONE_RUNTIME)

\* C3: the pass whose safety check forces a zone OFF publishes exactly one
\* retained OFF for that zone, the zone was ON before the pass and is OFF after
\* it; the safety check publishes nothing for a zone it does not force OFF, so
\* no later pass publishes OFF again unless the zone was turned ON again.
C3_ForcedOffPublishedOnce ==
    [][ \A z \in Zones :
          /\ z \in forced' => (pins[z] /\ ~pins'[z] /\ SafetyOffCount(out', z) = 1)
          /\ z \notin forced' => SafetyOffCount(out', z) = 0 ]_vars

C3_Witness ==
    \E z \in Zones :
        /\ z \in forced
        /\ ~pins[z]
        /\ SafetyOffCount(out, z) = 1
        /\ age[z] = MAX_ZONE_RUNTIME + 1

\* C4: a pass of loop() that starts with the channel disconnected changes no
\* zone output and no zone_on_time, applies no command and forces no zone OFF.
C4_DisconnectedPassLeavesZonesAlone ==
    [][ ~connected =>
          /\ pins' = pins
          /\ zone_on_time' = zone_on_time
          /\ forced' = {}
          /\ ~rx'.valid ]_vars

C4_Witness ==
    /\ step = <<"idle">>
    /\ \E z \in Zones : pins[z] /\ age[z] > MAX_ZONE_RUNTIME

\* C10: a connection attempt whose mqtt.connect succeeds makes, in this order
\* and within the same pass, one subscribe to home/sprinkler/zone/+/command,
\* one retained online publish on home/sprinkler/status, one retained state
\* publish per zone 1..N, then one retained discovery publish per zone 1..N,
\* and nothing else; an attempt whose mqtt.connect fails subscribes to nothing
\* and publishes nothing.
C10_ReconnectAnnouncesInOrder ==
    (Len(step) = 2 /\ step[1] = "reconnect") =>
        IF step[2] = "fail"
        THEN \A k \in 1 .. Len(out) : out[k].op \notin {"subscribe", "publish"}
        ELSE LET o == SubSeq(out, 2, Len(out))
             IN  /\ out[1].op = "connect"
                 /\ Len(o) = 2 + 2 * NUM_ZONES
                 /\ o[1] = [op |-> "subscribe", topic |-> "home/sprinkler/zone/+/command"]
                 /\ o[2].op = "publish"
                 /\ o[2].topic = "home/sprinkler/status"
                 /\ o[2].payload = "online"
                 /\ o[2].retained
                 /\ \A z \in Zones :
                       /\ o[2 + z].op = "publish"
                       /\ o[2 + z].topic = <<"home/sprinkler/", "zone/", z, "/state">>
                       /\ o[2 + z].payload \in {"ON", "OFF"}
                       /\ o[2 + z].retained
                       /\ o[2 + NUM_ZONES + z].op = "publish"
                       /\ o[2 + NUM_ZONES + z].topic =
                              <<"homeassistant/switch/sprinkler_zone", z, "/config">>
                       /\ o[2 + NUM_ZONES + z].retained

C10_Witness ==
    /\ step = <<"reconnect", "ok">>
    /\ connected
    /\ Len(out) = 3 + 2 * NUM_ZONES
    /\ \E z \in Zones : pins[z]

\* C11: after a call of reconnectMqtt whose mqtt.connect succeeded, the state
\* published for each zone z is the state of zone z's output at that moment:
\* ON for a zone that is ON (also one that was ON when the connection
\* dropped), OFF for a zone that is OFF.
C11_ReconnectRepublishesActualState ==
    (Len(step) = 2 /\ step[1] = "reconnect" /\ step[2] # "fail") =>
        \A z \in Zones :
            /\ out[3 + z].op = "publish"
            /\ out[3 + z].topic = <<"home/sprinkler/", "zone/", z, "/state">>
            /\ out[3 + z].payload = (IF pins[z] THEN "ON" ELSE "OFF")

C11_Witness ==
    /\ step = <<"reconnect", "ok">>
    /\ ndrop = 1
    /\ pins[1] /\ ~pins[2]
    /\ out[3 + 1].payload = "ON"
    /\ out[3 + 2].payload = "OFF"

\* C12: every call of reconnectMqtt registers the retained last will offline
\* on home/sprinkler/status, and whenever the controller is disconnected
\* after a connection existed, the retained value of that topic at the broker
\* is offline.
C12_WillKeepsAvailabilityOffline ==
    /\ (Len(step) = 2 /\ step[1] = "reconnect") =>
           out[1] = [op |-> "connect", willTopic |-> "home/sprinkler/status", willQos |-> 0,
                     willRetain |-> TRUE, willMessage |-> "offline"]
    /\ (~connected /\ broker # NO_VALUE) => broker = "offline"

C12_Witness ==
    /\ step = <<"reconnect", "fail">>
    /\ ndrop = 1
    /\ ~connected
    /\ broker = "offline"

\* C13: the retained value of home/sprinkler/status is always online or
\* offline (or nothing, before the first connection).
C13_StatusTopicCarriesOnlineOrOffline ==
    broker \in {NO_VALUE, "online", "offline"}

\* a call of publishStatus among the transport calls o
HasReport(o) ==
    \E k \in 1 .. Len(o) : o[k].op = "publish" /\ o[k].by = "publishStatus"

\* C17: a pass of loop() that starts disconnected publishes no status
\* report, however long ago the last report was.
C17_NoStatusReportWhileDisconnected ==
    [][ ~connected => (~HasReport(out') /\ lastStatusReport' = lastStatusReport) ]_vars

C17_Witness ==
    /\ step[1] \in {"idle", "reconnect"}
    /\ ~connected
    /\ sinceReport = STATUS_INTERVAL + 1
    /\ ~HasReport(out)

\* C20: the safety check and the status check run only at a point where the
\* connection is up, also in a pass whose mqtt.loop() lost the connection:
\* such a pass forces no zone off and calls neither publish of loop() nor
\* publishStatus.
C20_ScanAndStatusOnlyWhileConnected ==
    (step = <<"connected">> /\ lostIn = "pump") =>
        /\ forced = {}
        /\ \A k \in 1 .. Len(out) : out[k].by \notin {"loop", "publishStatus"}

-----------------------------------------------------------------------------
(* Properties of the timing of loop() (SpecTiming) *)

\* the value of an unsigned long below 2^31
Millis(u) == u[1] * HALF + u[2]

\* C14: while disconnected after a failed call of reconnectMqtt at time t, a
\* pass calls reconnectMqtt exactly when now - t > RECONNECT_INTERVAL: no
\* call in a pass with now - t <= RECONNECT_INTERVAL, a call in the first
\* pass with now - t > RECONNECT_INTERVAL.
C14_RetryOnlyAfterReconnectInterval ==
    [][ (~connected /\ lastResult \in {"fail", "lost"}) =>
            ((step'[1] = "reconnect") <=>
             (sinceAttempt + Millis(Elapsed(clock', clock)) > RECONNECT_INTERVAL)) ]_vars

C14_Witness ==
    /\ step = <<"idle">>
    /\ lastResult = "fail"
    /\ sinceAttempt = RECONNECT_INTERVAL

\* C16: any two consecutive calls of reconnectMqtt are more than
\* RECONNECT_INTERVAL apart, also when the broker accepts a connection and
\* then drops it.
C16_AttemptsAtLeastIntervalApart ==
    [][ (step'[1] = "reconnect" /\ sinceAttempt >= 0) =>
            sinceAttempt + Millis(Elapsed(clock', clock)) > RECONNECT_INTERVAL ]_vars

\* C18: a status report is published only in a pass that starts connected
\* and only if now - lastStatusReport > STATUS_INTERVAL, lastStatusReport
\* being the time of the previous report; two consecutive reports are more
\* than STATUS_INTERVAL apart.
C18_ReportsMoreThanIntervalApart ==
    [][ HasReport(out') =>
            /\ connected
            /\ U32Gt(Elapsed(clock', lastStatusReport), U32(STATUS_INTERVAL))
            /\ lastStatusReport' = clock'
            /\ sinceReport >= 0 =>
                  /\ sinceReport + Millis(Elapsed(clock', clock)) > STATUS_INTERVAL
                  /\ reportGap' > STATUS_INTERVAL ]_vars

C18_Witness ==
    /\ step = <<"connected">>
    /\ HasReport(out)
    /\ reportGap = STATUS_INTERVAL + 1
    /\ ndrop = 0

\* C19: when a status report has been made before and loop() has then found
\* the connection down for more than STATUS_INTERVAL (so that it has been
\* down for at least as long), the first pass of loop() that starts connected
\* after the reconnection publishes a status report.
C19_ReportRightAfterLongOutage ==
    [][ (connected /\ step = <<"reconnect", "ok">> /\ step' = <<"connected">>
         /\ sinceReport >= 0
         /\ downFor > STATUS_INTERVAL) =>
            (HasReport(out') /\ lastStatusReport' = clock') ]_vars

-----------------------------------------------------------------------------
(* Properties of loop() running for ever (SpecRetry) *)

\* C15: connection failures are retried for ever: at every point of every
\* execution the controller is connected again later or another call of
\* reconnectMqtt fails later, so the attempts never stop while disconnected,
\* and once no attempt fails any more the controller gets connected.
C15_RetriedForever ==
    []<>(connected \/ (Len(step) = 2 /\ step[1] = "reconnect" /\ step[2] \in {"fail", "lost"}))

\* connected by the second call of reconnectMqtt, the first having failed
C15_Witness ==
    /\ step = <<"reconnect", "ok">>
    /\ connected
    /\ ndrop = 0
    /\ clock = U32Add(U32Add(U32(RECONNECT_INTERVAL), U32(RetryStep)), U32(RetryStep))

-----------------------------------------------------------------------------
(* Properties of the callback (SpecCallback) *)

\* the command a payload stands for, by the wording of the protocol: a case
\* variant of ON or the single byte 1, a case variant of OFF or the single
\* byte 0, nothing otherwise
ExpectedCmd(payload) ==
    IF payload \in OnWords \cup {LIT_1} THEN "ON"
    ELSE IF payload \in OffWords \cup {LIT_0} THEN "OFF"
    ELSE "NONE"

\* the decimal value of a sequence of digits
RECURSIVE DecimalValue(_)
DecimalValue(seg) ==
    IF seg = << >> THEN 0
    ELSE 10 * DecimalValue(SubSeq(seg, 1, Len(seg) - 1)) + (seg[Len(seg)] - 48)

\* a zone segment that is missing, that does not start with a digit, or that
\* is a number equal to 0 or above NUM_ZONES
BadSegment(seg) ==
    \/ seg = << >>
    \/ ~IsDigit(seg[1])
    \/ /\ \A k \in 1 .. Len(seg) : IsDigit(seg[k])
       /\ (DecimalValue(seg) = 0 \/ DecimalValue(seg) > NUM_ZONES)

\* C5: a recognised command payload on home/sprinkler/zone/{z}/command, z in
\* 1..N, delivered while connected, sets the output of zone z to the commanded
\* state and publishes that state, retained, on home/sprinkler/zone/{z}/state
\* within the same invocation of callback.
C5_CommandAppliedAndPublished ==
    \A z \in Zones :
        (rx.valid /\ rx.topic = CommandTopic(ZoneSeg(z)) /\ ExpectedCmd(rx.payload) # "NONE") =>
            /\ connected
            /\ pins[z] = (ExpectedCmd(rx.payload) = "ON")
            /\ out = << [op |-> "publish", by |-> "callback",
                         topic |-> <<"home/sprinkler/", "zone/", z, "/state">>,
                         payload |-> ExpectedCmd(rx.payload), retained |-> TRUE] >>

C5_Witness ==
    /\ rx.valid
    /\ rx.topic = CommandTopic(ZoneSeg(3))
    /\ rx.payload = <<111, 78>>
    /\ pins = [AllOff EXCEPT ![3] = TRUE]
    /\ Len(out) = 1

\* C6: a message whose zone segment is missing, non-numeric, 0 or above N
\* changes no zone output and publishes nothing, whatever its payload.
C6_BadZoneSegmentIsNoOp ==
    [][ \A seg \in Segments :
          (rx'.valid /\ rx'.topic = CommandTopic(seg) /\ BadSegment(seg)) =>
              (pins' = pins /\ out' = << >>) ]_vars

\* C7: home/sprinkler/zone/{z}/command, z in 1..N, is parsed to exactly zone z.
C7_ZoneTopicParsedToItsZone ==
    \A z \in Zones :
        (rx.valid /\ rx.topic = CommandTopic(ZoneSeg(z))) => dec.zone = z

C7_Witness ==
    /\ rx.valid
    /\ rx.topic = CommandTopic(ZoneSeg(NUM_ZONES))
    /\ dec.zone = NUM_ZONES

\* C8: on a valid zone topic the command found is ON exactly for the case
\* variants of ON and the single byte 1, OFF exactly for the case variants of
\* OFF and the single byte 0, and any other payload, of any bytes, changes
\* nothing and publishes nothing.
C8_PayloadDecidesCommand ==
    (rx.valid /\ rx.topic \in ZoneTopics) =>
        /\ dec.cmd = ExpectedCmd(rx.payload)
        /\ ExpectedCmd(rx.payload) = "NONE" => (out = << >> /\ pins \in {AllOff, AllOn})

\* C9: for a payload of length L the callback copies min(L, capacity-1) bytes
\* into message and writes the terminator at index min(L, capacity-1); every
\* index written in message and in upperMessage lies in 0..capacity-1.
C9_BufferWritesInBounds ==
    rx.valid =>
        LET L == Len(rx.payload)
            n == IF L < MQTT_MESSAGE_BUFFER_SIZE - 1 THEN L ELSE MQTT_MESSAGE_BUFFER_SIZE - 1
        IN  /\ MessageBuf(rx.payload) = SubSeq(rx.payload, 1, n) \o <<0>>
            /\ MessageWrites(rx.payload) = 0 .. n
            /\ MessageWrites(rx.payload) \subseteq 0 .. (MQTT_MESSAGE_BUFFER_SIZE - 1)
            /\ UpperWrites(rx.payload) \subseteq 0 .. (MQTT_MESSAGE_BUFFER_SIZE - 1)
            /\ n \in UpperWrites(rx.payload)

C9_Witness ==
    /\ rx.valid
    /\ Len(rx.payload) > MQTT_MESSAGE_BUFFER_SIZE
    /\ dec.zone # 0
    /\ MessageWrites(rx.payload) = 0 .. (MQTT_MESSAGE_BUFFER_SIZE - 1)

-----------------------------------------------------------------------------
(* Further properties of the control loop (Spec) *)

\* C21: after every pass of loop(), for every zone, zone_on_time is non-zero
\* exactly when the zone's pin is HIGH, whatever millis() returned.
C21_TimestampNonZeroIffOn ==
    \A z \in Zones : (zone_on_time[z] # U32Zero) <=> pins[z]

-----------------------------------------------------------------------------
(* Further properties of the callback (SpecCallback) *)

\* a topic home/sprinkler/zone/{digits}/command whose digits are the number z
AddressedTo(topic, z) ==
    \E seg \in Segments \cup {ZoneSeg(z)} :
        /\ seg # << >>
        /\ \A k \in 1 .. Len(seg) : IsDigit(seg[k])
        /\ DecimalValue(seg) = z
        /\ topic = CommandTopic(seg)

\* a message that is, by the wording of the protocol, the command c for zone z
ValidCommandFor(m, z, c) ==
    m.valid /\ AddressedTo(m.topic, z) /\ ExpectedCmd(m.payload) = c

\* C22: all zones are OFF when loop() is first entered; a pin goes from LOW to
\* HIGH only in a step that delivers a valid ON command for its zone, and from
\* HIGH to LOW only in a step that delivers a valid OFF command for its zone
\* or in which the safety check forces the zone off; the safety check never
\* sets a pin HIGH.
C22_OutputsChangeOnlyByCommandOrSafety ==
    /\ [](step = <<"setup">> /\ ~connected => pins = AllOff)
    /\ [][ \A z \in Zones :
             /\ (~pins[z] /\ pins'[z]) =>
                    (ValidCommandFor(rx', z, "ON") /\ z \notin forced')
             /\ (pins[z] /\ ~pins'[z]) =>
                    (ValidCommandFor(rx', z, "OFF") \/ z \in forced') ]_vars

\* the digits a zone segment starts with
RECURSIVE LeadingDigits(_)
LeadingDigits(seg) ==
    IF seg = << >> \/ ~IsDigit(seg[1]) THEN << >>
    ELSE <<seg[1]>> \o LeadingDigits(Tail(seg))

\* C27: the zone number callback extracts from home/sprinkler/zone/{seg}/command
\* is the value of the longest run of digits that starts right behind the
\* /zone/ marker, and 0 when the character there is not a digit ('-', '+',
\* a space, a letter), so that such a message is rejected.
C27_ZoneIsLeadingDigitRun ==
    \A seg \in Segments :
        (rx.valid /\ rx.topic = CommandTopic(seg)) =>
            /\ ParseZone(rx.topic) = DecimalValue(LeadingDigits(seg))
            /\ (LeadingDigits(seg) = << >> => dec.zone = 0)

\* the positions at which pat occurs in s
Occurrences(s, pat) ==
    { i \in 1 .. (Len(s) - Len(pat) + 1) : SubSeq(s, i, i + Len(pat) - 1) = pat }

\* the least element of a non-empty set of numbers
Least(S) == CHOOSE i \in S : \A j \in S : i <= j

\* the topic contains /zone/ and its first /command lies behind its first /zone/
FirstCommandAfterFirstZone(topic) ==
    /\ Occurrences(topic, ZONE_PREFIX) # {}
    /\ Occurrences(topic, COMMAND_SUFFIX) # {}
    /\ Least(Occurrences(topic, COMMAND_SUFFIX)) > Least(Occurrences(topic, ZONE_PREFIX))

\* the topic contains /zone/ and some /command behind its first /zone/
SomeCommandAfterZone(topic) ==
    /\ Occurrences(topic, ZONE_PREFIX) # {}
    /\ \E c \in Occurrences(topic, COMMAND_SUFFIX) :
          c > Least(Occurrences(topic, ZONE_PREFIX))

\* C28, as stated: a topic passes the structural check of callback exactly
\* when it contains /zone/ and a /command that appears after the zone marker;
\* a topic that does not pass changes no pin and publishes nothing.
C28_PassesIffSomeCommandAfterZone ==
    rx.valid =>
        /\ TopicOk(rx.topic) <=> SomeCommandAfterZone(rx.topic)
        /\ ~SomeCommandAfterZone(rx.topic) =>
               (dec.zone = 0 /\ out = << >> /\ pins \in {AllOff, AllOn})

\* C28, amended: a topic passes the structural check of callback exactly when
\* it contains /zone/ and /command and the first /command lies behind the
\* first /zone/; a topic that does not pass changes no pin and publishes
\* nothing.
C28_PassesIffFirstCommandAfterFirstZone ==
    rx.valid =>
        /\ TopicOk(rx.topic) <=> FirstCommandAfterFirstZone(rx.topic)
        /\ ~FirstCommandAfterFirstZone(rx.topic) =>
               (dec.zone = 0 /\ out = << >> /\ pins \in {AllOff, AllOn})

\* home/sprinkler/command/zone/5/command with ON is ignored
C28_Witness ==
    /\ rx.valid
    /\ rx.topic = TOPIC_HEAD \o COMMAND_SUFFIX \o ZONE_PREFIX \o <<53>> \o COMMAND_SUFFIX
    /\ rx.payload = LIT_ON
    /\ ~TopicOk(rx.topic)
    /\ dec.zone = 0
    /\ out = << >>
    /\ pins = AllOff

-----------------------------------------------------------------------------
(* Properties of the zone timer (Spec) *)

\* C29: a pass that delivers an ON command for a zone whose pin is already
\* HIGH, and does not force the zone off, leaves zone_on_time of that zone at
\* the value recorded when the zone was switched on.
C29_RepeatedOnKeepsTimestamp ==
    [][ \A z \in Zones :
          (/\ pins[z]
           /\ step' = <<"connected">>
           /\ ValidCommandFor(rx', z, "ON")
           /\ z \notin forced') =>
              zone_on_time'[z] = zone_on_time[z] ]_vars

\* C30: when a zone that was ON at the loss of the connection has been ON for
\* more than MAX_ZONE_RUNTIME by the time reconnectMqtt succeeds, the next
\* pass, the first in the connected branch, sets its pin LOW and publishes
\* OFF on its state topic (unless that pass delivers OFF for the zone itself).
C30_OverdueZoneForcedOffAfterReconnect ==
    [][ \A z \in Zones :
          (/\ step = <<"reconnect", "ok">>
           /\ connected
           /\ pins[z]
           /\ age[z] > MAX_ZONE_RUNTIME
           /\ step' = <<"connected">>
           /\ ~ValidCommandFor(rx', z, "OFF")) =>
              (/\ z \in forced'
               /\ ~pins'[z]
               /\ zone_on_time'[z] = U32Zero
               /\ SafetyOffCount(out', z) = 1) ]_vars

-----------------------------------------------------------------------------
(* Properties of loop() under an arbitrary configuration (SpecConfig) *)

\* a non-empty text of decimal digits only
AllDigits(text) == text # << >> /\ \A k \in 1 .. Len(text) : IsDigit(text[k])

C25_EmptyAddressAbortsAttempt ==
    (step[1] = "reconnect" /\ mqtt_server = << >>) =>
        \A k \in 1 .. Len(out) : out[k].op \notin {"connect", "subscribe", "publish"}

\* C26: no pass of loop(), with whatever message, connection result or
\* configuration, brings the device back to the state after setup(), and as
\* long as passes remain to be taken a next pass can be taken.
C26_LoopNeverRestartsNorStops ==
    /\ [](ticks < MaxConfigTicks => ENABLED NextConfig)
    /\ [][step' # <<"setup">>]_vars

\* an unusable port text, a message for zone 99, a lost connection and a
\* failed attempt, and loop() has run all its passes
C26_Witness ==
    /\ ticks = MaxConfigTicks
    /\ mqtt_port = <<97, 57>>
    /\ step = <<"reconnect", "fail">>
    /\ nmsg = 1
    /\ ndrop = 1
    /\ pins = AllOff

-----------------------------------------------------------------------------
(* Properties of the elapsed-time tests (SpecElapsed) *)

\* an unsigned long e, taken as a number of milliseconds, is above n (n < 2^31)
MoreThan(e, n) == IF e[1] >= HALF \div 2 THEN TRUE ELSE e[1] * HALF + e[2] > n

\* C23: with millis() wrapping modulo 2^32, each of the three tests (retry
\* of the connection, runtime limit of a zone, status report) made e
\* milliseconds after the time it refers to was recorded, e < 2^32, comes out
\* true exactly when e is above its interval, whether or not the counter has
\* wrapped in between.
C23_ElapsedTestsAreWrapSafe ==
    probe.taken =>
        /\ probe.reconnect <=> MoreThan(probe.elapsed, RECONNECT_INTERVAL)
        /\ probe.runtime <=> MoreThan(probe.elapsed, MAX_ZONE_RUNTIME)
        /\ probe.status <=> MoreThan(probe.elapsed, STATUS_INTERVAL)

-----------------------------------------------------------------------------
(* Properties of the published zone states (Spec) *)

\* C31: after every pass of loop() that ends with the connection up, the
\* retained value of every zone's state topic is the state of that zone's
\* pin, whatever commands, forced shut-offs, losses of the connection (also
\* inside mqtt.loop()) and reconnections came before.
C31_RetainedStateIsActualState ==
    connected => \A z \in Zones : zoneRetained[z] = PinText(pins, z)

\* zone 1 is switched ON by a command after the connection was lost inside
\* mqtt.loop() and made again
C31_Witness ==
    /\ connected
    /\ step = <<"connected">>
    /\ ndrop = 1
    /\ rx.valid
    /\ dec = [zone |-> 1, cmd |-> "ON"]
    /\ pins[1]
    /\ zoneRetained[1] = "ON"

\* the zones on whose state topic callback or the safety check published in o
ZonesPublished(o) ==
    { z \in Zones :
        \E k \in 1 .. Len(o) :
            /\ o[k].op = "publish"
            /\ o[k].by \in {"callback", "loop"}
            /\ o[k].topic = StateTopic(z) }

\* the zones for which a message of Inbox is a valid ON command
OnCommandZones == [m \in Inbox |-> { z \in Zones : ValidCommandFor(m, z, "ON") }]

\* C32: in a connected pass, a zone that is neither the zone of the command
\* delivered nor a zone the safety check forces off keeps its pin and gets no
\* publish on its state topic; and an ON command for a zone sets its pin HIGH
\* whatever the other pins are, so that any zones can be ON together.
C32_OtherZonesUntouched ==
    [][ step' = <<"connected">> =>
          \A y \in Zones :
              /\ (y # dec'.zone /\ y \notin forced') =>
                     (pins'[y] = pins[y] /\ y \notin ZonesPublished(out'))
              /\ (rx'.valid /\ y \in OnCommandZones[rx'] /\ y \notin forced') => pins'[y] ]_vars

\* zone 1 is forced off in the pass after zone 7 was switched ON: zone 7
\* stays ON and nothing is published for it
C32_Witness ==
    /\ step = <<"connected">>
    /\ forced = {1}
    /\ ~pins[1]
    /\ pins[NUM_ZONES]
    /\ ZonesPublished(out) = {1}
    /\ nmsg = 2

\* C33: a status report is the last call of its pass, behind the calls of
\* callback and of the safety check, and lists for every zone 1..N the state
\* its pin has when the pass ends: the new state of a zone that a command
\* switched or that the safety check forced off in that very pass.
C33_ReportShowsStatesAfterPumpAndScan ==
    HasReport(out) =>
        LET r == out[Len(out)]
        IN  /\ r.by = "publishStatus"
            /\ \A k \in 1 .. (Len(out) - 1) : out[k].by # "publishStatus"
            /\ DOMAIN r.payload.zones = Zones
            /\ \A z \in Zones :
                  /\ r.payload.zones[z].zone = z
                  /\ r.payload.zones[z].state = PinText(pins, z)

\* the pass that forces zone 1 off publishes a report that shows zone 1 OFF
C33_Witness ==
    /\ step = <<"connected">>
    /\ HasReport(out)
    /\ forced = {1}
    /\ out[Len(out)].payload.zones[1].state = "OFF"
    /\ SafetyOffCount(out, 1) = 1

-----------------------------------------------------------------------------
(* Properties of the discovery records (Spec) *)

\* the calls of publishHomeAssistantConfig among the transport calls o
DiscoveryOf(o) ==
    SelectSeq(o, LAMBDA c : c.op = "publish" /\ c.by = "publishHomeAssistantConfig")

\* C34: the discovery records published by any call of reconnectMqtt that
\* connects are, zone by zone, the same records, fixed by the zone index and
\* the constants of the build, whatever the pins, the timers and the earlier
\* connections and losses are.
C34_DiscoveryRecordsIdentical ==
    (step[1] = "reconnect" /\ step[2] # "fail") =>
        /\ Len(DiscoveryOf(out)) = NUM_ZONES
        /\ \A z \in Zones :
              DiscoveryOf(out)[z] =
                  Publish("publishHomeAssistantConfig",
                          <<"homeassistant/switch/sprinkler_zone", z, "/config">>,
                          DiscoveryPayload(z), TRUE)

\* a second connection, made while zone 1 is ON and its timer is running
C34_Witness ==
    /\ step = <<"reconnect", "ok">>
    /\ ndrop = 1
    /\ pins[1]
    /\ zone_on_time[1] # U32Zero
    /\ Len(DiscoveryOf(out)) = NUM_ZONES

-----------------------------------------------------------------------------
(* Properties of loadConfig() (SpecLoad) *)

\* the text starts with a number in 1..65535
StartsWithPort(text) ==
    /\ LeadingDigits(text) # << >>
    /\ DecimalValue(LeadingDigits(text)) \in 1 .. MAX_PORT

-----------------------------------------------------------------------------
(* The two callbacks compared (SpecCallback) *)

\* the six payloads both callbacks know
CommonPayloads == { LIT_ON, <<111, 110>>, LIT_1, LIT_OFF, <<111, 102, 102>>, LIT_0 }

\* C36: on a topic home/sprinkler/zone/{digits}/command and a payload among
\* ON, on, 1, OFF, off, 0 the callback of the firmware changes the pins and
\* publishes exactly as the String-based callback of src/src/main.cpp does.
C36_CallbacksAgreeOnCommonPayloads ==
    [][ \A seg \in Segments :
          (/\ rx'.valid
           /\ AllDigits(seg)
           /\ rx'.topic = CommandTopic(seg)
           /\ rx'.payload \in CommonPayloads) =>
              LET sd == StringDecode(rx'.topic, rx'.payload)
              IN  /\ pins' = StringCallbackPins(pins, sd)
                  /\ out' = StringCallbackOut(sd) ]_vars

\* "on" for zone/03/command switches zone 3 ON in both
C36_Witness ==
    /\ rx.valid
    /\ rx.topic = CommandTopic(<<48, 51>>)
    /\ rx.payload = <<111, 110>>
    /\ StringDecode(rx.topic, rx.payload) = [zone |-> 3, cmd |-> "ON"]
    /\ pins = [AllOff EXCEPT ![3] = TRUE]
    /\ Len(out) = 1

-----------------------------------------------------------------------------
(* Properties of loop() from boot (SpecBoot), where clock is the time since boot *)

\* C37: a pass of loop() that reads now <= RECONNECT_INTERVAL after boot
\* does not call reconnectMqtt, and a pass that reads now <= STATUS_INTERVAL
\* after boot publishes no status report, connected or not.
C37_NothingBeforeFirstInterval ==
    /\ Millis(clock) <= RECONNECT_INTERVAL => step[1] # "reconnect"
    /\ Millis(clock) <= STATUS_INTERVAL => (~HasReport(out) /\ lastStatusReport = U32Zero)

\* a connected pass exactly STATUS_INTERVAL after boot publishes no report
C37_Witness ==
    /\ step = <<"connected">>
    /\ connected
    /\ clock = U32(STATUS_INTERVAL)
    /\ ~HasReport(out)

====
